---- MODULE Spec2Model ----
(***************************************************************************)
(* Recipe extractor and organizer: the extraction pipeline                 *)
(* (backend/routes/recipes.py, backend/extraction.py), the text utilities  *)
(* it calls (backend/utils.py) and the sqlite store (backend/db.py).       *)
(*                                                                         *)
(* A Python str is modelled as a sequence of one-character strings, so     *)
(* that strip, endswith and the regular expressions of the source are      *)
(* computed character by character.                                        *)
(***************************************************************************)
EXTENDS Integers, Sequences, FiniteSets, TLC

----------------------------------------------------------------------------
(* Characters and the str methods the source uses                          *)

Digits == <<"0", "1", "2", "3", "4", "5", "6", "7", "8", "9">>

LowerLetters == <<"a", "b", "c", "d", "e", "f", "g", "h", "i", "j", "k", "l", "m",
                  "n", "o", "p", "q", "r", "s", "t", "u", "v", "w", "x", "y", "z">>

UpperLetters == <<"A", "B", "C", "D", "E", "F", "G", "H", "I", "J", "K", "L", "M",
                  "N", "O", "P", "Q", "R", "S", "T", "U", "V", "W", "X", "Y", "Z">>

Range(f) == {f[i] : i \in DOMAIN f}

IsDigit(c) == c \in Range(Digits)

\* what \s and str.strip() treat as whitespace, within the model's alphabet
IsSpace(c) == c \in {" ", "\t", "\n"}

IndexOf(c, tup) == CHOOSE i \in DOMAIN tup : tup[i] = c

LowerChar(c) == IF c \in Range(UpperLetters) THEN LowerLetters[IndexOf(c, UpperLetters)] ELSE c

UpperChar(c) == IF c \in Range(LowerLetters) THEN UpperLetters[IndexOf(c, LowerLetters)] ELSE c

\* str.lower()
Lower(s) == [i \in DOMAIN s |-> LowerChar(s[i])]

\* str.upper()
Upper(s) == [i \in DOMAIN s |-> UpperChar(s[i])]

\* index of the first non-blank character at or after i, Len(s)+1 if none
RECURSIVE SkipSpace(_, _)
SkipSpace(s, i) == IF i <= Len(s) /\ IsSpace(s[i]) THEN SkipSpace(s, i + 1) ELSE i

\* index of the first non-digit at or after i, Len(s)+1 if none
RECURSIVE SkipDigits(_, _)
SkipDigits(s, i) == IF i <= Len(s) /\ IsDigit(s[i]) THEN SkipDigits(s, i + 1) ELSE i

\* index of the last non-blank character at or before i, 0 if none
RECURSIVE LastNonSpace(_, _)
LastNonSpace(s, i) == IF i >= 1 /\ IsSpace(s[i]) THEN LastNonSpace(s, i - 1) ELSE i

\* str.strip()
Strip(s) == SubSeq(s, SkipSpace(s, 1), LastNonSpace(s, Len(s)))

\* the suffix of s from index i on
From(s, i) == SubSeq(s, i, Len(s))

\* s[i:].startswith(p)
StartsWithAt(s, i, p) == /\ i + Len(p) - 1 <= Len(s)
                         /\ SubSeq(s, i, i + Len(p) - 1) = p

\* str.endswith(":")
EndsWithColon(s) == Len(s) > 0 /\ s[Len(s)] = ":"

\* int() of a string of decimal digits
RECURSIVE IntOf(_)
IntOf(ds) == IF Len(ds) = 0 THEN 0
             ELSE 10 * IntOf(SubSeq(ds, 1, Len(ds) - 1)) + (IndexOf(ds[Len(ds)], Digits) - 1)

RECURSIVE Pow10(_)
Pow10(n) == IF n = 0 THEN 1 ELSE 10 * Pow10(n - 1)

----------------------------------------------------------------------------
(* utils.time_to_minutes                                                   *)

\* The outcome of a call that may raise: the value, or the exception raised.
Returned(v) == [raised |-> FALSE, val |-> v]

Raised == [raised |-> TRUE, val |-> 0]

\* the unit alternation (hour|hr|h|minute|min|m), in the order the regex tries it
UnitWords == << <<"h", "o", "u", "r">>, <<"h", "r">>, <<"h">>,
                <<"m", "i", "n", "u", "t", "e">>, <<"m", "i", "n">>, <<"m">> >>

NoMatch == [ok |-> FALSE, amount |-> <<>>, unit |-> <<>>, end |-> 0]

\* the first alternative of UnitWords that t holds at q, 0 if none
UnitAt(t, q) ==
    IF \E k \in DOMAIN UnitWords : StartsWithAt(t, q, UnitWords[k])
    THEN CHOOSE k \in DOMAIN UnitWords :
            /\ StartsWithAt(t, q, UnitWords[k])
            /\ \A k2 \in 1..(k - 1) : ~StartsWithAt(t, q, UnitWords[k2])
    ELSE 0

\* the index after "s?" tried at e
AfterPlural(t, e) == IF e <= Len(t) /\ t[e] = "s" THEN e + 1 ELSE e

\* the match of amount t[i..j-1] followed at q by unit alternative k (0: no match)
WithUnit(t, i, j, q, k) ==
    IF k = 0 THEN NoMatch
    ELSE [ok |-> TRUE, amount |-> SubSeq(t, i, j - 1), unit |-> UnitWords[k],
          end |-> AfterPlural(t, q + Len(UnitWords[k]))]

UnitFrom(t, i, j, q) == WithUnit(t, i, j, q, UnitAt(t, q))

\* the amount t[i..j-1], then \s*(hour|hr|h|minute|min|m)s?
UnitTail(t, i, j) == IF j = 0 THEN NoMatch ELSE UnitFrom(t, i, j, SkipSpace(t, j))

\* \d+/\d+ at a, b the index after the first \d+: the index after it, 0 if no match
FractionAt(t, a, b) ==
    IF b > a /\ b <= Len(t) /\ t[b] = "/" /\ SkipDigits(t, b + 1) > b + 1
    THEN SkipDigits(t, b + 1) ELSE 0

FractionFrom(t, a) == FractionAt(t, a, SkipDigits(t, a))

\* (?:\s*\d+/\d+) matched at j: the index after it, or 0 when it does not match
FractionGroup(t, j) == FractionFrom(t, SkipSpace(t, j))

FirstOk(m1, m2) == IF m1.ok THEN m1 ELSE m2

\* \d+(?:\s*\d+/\d+)? then the unit tail, the \d+ ending before j: greedy, so the
\* longest \d+ is tried first, and for each \d+ the group before its absence
RECURSIVE Alt1(_, _, _)
Alt1(t, i, j) ==
    IF j <= i THEN NoMatch
    ELSE FirstOk(UnitTail(t, i, FractionGroup(t, j)),
                 FirstOk(UnitTail(t, i, j), Alt1(t, i, j - 1)))

\* \d+\.\d+ ending before c, b the index after the first \d+, then the unit tail
DecimalAt(t, i, b, c) ==
    IF b > i /\ b <= Len(t) /\ t[b] = "." /\ c > b + 1 THEN UnitTail(t, i, c) ELSE NoMatch

DecimalFrom(t, i, b) == DecimalAt(t, i, b, SkipDigits(t, b + 1))

Alt2(t, i) == DecimalFrom(t, i, SkipDigits(t, i))

\* one attempt of the duration regex at index i
DurationMatchAt(t, i) == FirstOk(Alt1(t, i, SkipDigits(t, i)), Alt2(t, i))

\* re.findall: the non-overlapping matches, left to right
RECURSIVE FindDurations(_, _)
FindNext(t, i, m) ==
    IF m.ok THEN <<m>> \o FindDurations(t, m.end) ELSE FindDurations(t, i + 1)

FindDurations(t, i) == IF i > Len(t) THEN <<>> ELSE FindNext(t, i, DurationMatchAt(t, i))

HasChar(s, c) == \E i \in DOMAIN s : s[i] = c

FirstIndex(s, c) == CHOOSE i \in DOMAIN s : s[i] = c /\ \A k \in 1..(i - 1) : s[k] # c

AllDigits(s) == Len(s) > 0 /\ \A i \in DOMAIN s : IsDigit(s[i])

Before(s, c) == SubSeq(s, 1, FirstIndex(s, c) - 1)

After(s, c) == From(s, FirstIndex(s, c) + 1)

NoValue == [raised |-> TRUE, num |-> 0, den |-> 1]

\* int(whole) + int(num)/int(den), as a fraction; int() raises on what is no number
Fraction(whole, num, den) ==
    IF ~AllDigits(num) \/ IntOf(den) = 0 THEN NoValue
    ELSE [raised |-> FALSE, num |-> IntOf(whole) * IntOf(den) + IntOf(num), den |-> IntOf(den)]

\* whole, frac = amount.split(); num, den = frac.split("/")
Mixed(whole, frac) == Fraction(whole, Before(frac, "/"), After(frac, "/"))

\* float(amount) of digits "." digits
Decimal(int, frac) ==
    [raised |-> FALSE, num |-> IntOf(int) * Pow10(Len(frac)) + IntOf(frac),
     den |-> Pow10(Len(frac))]

\* the amount as a fraction [raised, num, den]: mixed number, fraction, decimal or integer
AmountValue(amount) ==
    IF HasChar(amount, " ") /\ HasChar(amount, "/")
    THEN Mixed(SubSeq(amount, 1, SkipDigits(amount, 1) - 1),
               From(amount, SkipSpace(amount, SkipDigits(amount, 1))))
    ELSE IF HasChar(amount, "/")
    THEN Fraction(<<>>, Before(amount, "/"), After(amount, "/"))
    ELSE IF HasChar(amount, ".")
    THEN Decimal(Before(amount, "."), After(amount, "."))
    ELSE [raised |-> FALSE, num |-> IntOf(amount), den |-> 1]

IsHourUnit(unit) == unit \in {<<"h", "o", "u", "r">>, <<"h">>, <<"h", "r">>}

\* int(amount_val * 60) or int(amount_val)
MinutesOf(v, unit) ==
    IF v.raised THEN Raised
    ELSE IF IsHourUnit(unit) THEN Returned((v.num * 60) \div v.den)
    ELSE Returned(v.num \div v.den)

MatchMinutes(m) == MinutesOf(AmountValue(m.amount), m.unit)

AddMinutes(h, r) == IF h.raised \/ r.raised THEN Raised ELSE Returned(h.val + r.val)

RECURSIVE SumMinutes(_)
SumMinutes(ms) ==
    IF Len(ms) = 0 THEN Returned(0)
    ELSE AddMinutes(MatchMinutes(Head(ms)), SumMinutes(Tail(ms)))

\* the digits before `unit` at index i when t[i..] is \d+ then unit, else <<>>
IsoPart(u, i, e, unit) ==
    IF e > i /\ e <= Len(u) /\ u[e] = unit THEN SubSeq(u, i, e - 1) ELSE <<>>

IsoDigits(u, i, unit) == IsoPart(u, i, SkipDigits(u, i), unit)

\* (?:(\d+)H)?(?:(\d+)M)? at index 3, h the digits of the hours group
IsoMinutes(u, h) ==
    IntOf(h) * 60 + IntOf(IsoDigits(u, IF Len(h) > 0 THEN 3 + Len(h) + 1 ELSE 3, "M"))

\* ^P(?:T(?:(\d+)H)?(?:(\d+)M)?) on the upper-cased text
IsoMatches(u) == StartsWithAt(u, 1, <<"P", "T">>)

MinutesOfStripped(t, u) ==
    IF IsoMatches(u) THEN Returned(IsoMinutes(u, IsoDigits(u, 3, "H")))
    ELSE SumMinutes(FindDurations(Lower(t), 1))

MinutesOfText(t) == MinutesOfStripped(t, Upper(t))

time_to_minutes(text) ==
    IF Len(text) = 0 THEN Returned(0) ELSE MinutesOfText(Strip(text))

----------------------------------------------------------------------------
(* utils.clean_ingredients and utils.clean_steps                           *)

MainName == <<"M", "a", "i", "n">>

StepsName == <<"S", "t", "e", "p", "s">>

StepWord == <<"s", "t", "e", "p">>

Section(name, items) == [section |-> name, items |-> items]

\* the section is appended whether or not it has items
Flush_Always(sections, cur) == Append(sections, cur)

\* "if current_section.items: sections.append(current_section)"
Flush(sections, cur) == IF Len(cur.items) > 0 THEN Append(sections, cur) ELSE sections

RECURSIVE IngredientsLoop(_, _, _)
\* a line equal to the section's last item is dropped, as clean_steps does
IngredientsLine_Dedup(rest, sections, cur, line) ==
    IF Len(line) = 0 THEN IngredientsLoop(rest, sections, cur)
    ELSE IF EndsWithColon(line)
    THEN IngredientsLoop(rest, Flush(sections, cur),
                         Section(SubSeq(line, 1, Len(line) - 1), <<>>))
    ELSE IF Len(cur.items) > 0 /\ cur.items[Len(cur.items)] = line
    THEN IngredientsLoop(rest, sections, cur)
    ELSE IngredientsLoop(rest, sections, Section(cur.section, Append(cur.items, line)))

IngredientsLine(rest, sections, cur, line) ==
    IF Len(line) = 0 THEN IngredientsLoop(rest, sections, cur)
    ELSE IF EndsWithColon(line)
    THEN IngredientsLoop(rest, Flush(sections, cur),
                         Section(SubSeq(line, 1, Len(line) - 1), <<>>))
    ELSE IngredientsLoop(rest, sections, Section(cur.section, Append(cur.items, line)))

IngredientsLoop(raw, sections, cur) ==
    IF Len(raw) = 0 THEN Flush(sections, cur)
    ELSE IngredientsLine(Tail(raw), sections, cur, Strip(Head(raw)))

clean_ingredients(raw_ingredients) ==
    IngredientsLoop(raw_ingredients, <<>>, Section(MainName, <<>>))

generic_labels ==
    { <<"s", "t", "e", "p">>,
      <<"s", "t", "e", "p", "s">>,
      <<"i", "n", "s", "t", "r", "u", "c", "t", "i", "o", "n">>,
      <<"i", "n", "s", "t", "r", "u", "c", "t", "i", "o", "n", "s">>,
      <<"m", "e", "t", "h", "o", "d">>,
      <<"m", "e", "t", "h", "o", "d", "s">>,
      <<"d", "i", "r", "e", "c", "t", "i", "o", "n", "s">> }

\* the character U+2022 (bullet): one character of a str, written in ASCII here
Bullet == "U+2022"

\* re.sub(r"^[\-\u2022\*]\s*", "", t)
StripBullet(t) ==
    IF Len(t) > 0 /\ t[1] \in {"-", Bullet, "*"} THEN From(t, SkipSpace(t, 2)) ELSE t

\* re.sub(r"^\d+\s*[\.\)]\s*", "", t)
NumberEndsAt(t, d, s) ==
    IF d > 1 /\ s <= Len(t) /\ t[s] \in {".", ")"} THEN From(t, SkipSpace(t, s + 1)) ELSE t

StripNumber(t) == NumberEndsAt(t, SkipDigits(t, 1), SkipSpace(t, SkipDigits(t, 1)))

\* re.sub(r"^(?:step\s*\d*\s*[:\-\.)]?\s*)", "", t, flags=re.IGNORECASE)
LabelEndsAt(t, c) ==
    From(t, SkipSpace(t, IF c <= Len(t) /\ t[c] \in {":", "-", ".", ")"} THEN c + 1 ELSE c))

StripStepLabel(t) ==
    IF ~StartsWithAt(Lower(t), 1, StepWord) THEN t
    ELSE LabelEndsAt(t, SkipSpace(t, SkipDigits(t, SkipSpace(t, Len(StepWord) + 1))))

normalize_step_text(t) == Strip(StripStepLabel(StripNumber(StripBullet(Strip(t)))))

\* re.match(r"^step\s*\d*\s*$", header, flags=re.IGNORECASE)
IsBareStepLabel(header) ==
    /\ StartsWithAt(Lower(header), 1, StepWord)
    /\ SkipSpace(header, SkipDigits(header, SkipSpace(header, Len(StepWord) + 1))) = Len(header) + 1

\* "if header and header.lower() not in generic_labels and not re.match(...)"
OpensSection(header) ==
    /\ Len(header) > 0
    /\ Lower(header) \notin generic_labels
    /\ ~IsBareStepLabel(header)

\* the header a line ending in ":" opens, or <<>> when the line opens none
HeaderOf(line, header) == IF EndsWithColon(line) /\ OpensSection(header) THEN header ELSE <<>>

StepsHeader(line) == HeaderOf(line, Strip(SubSeq(line, 1, Len(line) - 1)))

\* the normalized line is dropped also when the section holds it anywhere
Dropped_Anywhere(norm, cur) ==
    \/ Len(norm) = 0
    \/ Lower(norm) \in generic_labels
    \/ norm \in Range(cur.items)

\* the normalized line is dropped: empty, a generic label, or the section's last item
Dropped(norm, cur) ==
    \/ Len(norm) = 0
    \/ Lower(norm) \in generic_labels
    \/ (Len(cur.items) > 0 /\ cur.items[Len(cur.items)] = norm)

RECURSIVE StepsLoop(_, _, _)
StepsLine(rest, sections, cur, line, header, norm) ==
    IF Len(line) = 0 THEN StepsLoop(rest, sections, cur)
    ELSE IF Len(header) > 0
    THEN StepsLoop(rest, Flush(sections, cur), Section(header, <<>>))
    ELSE IF Dropped(norm, cur) THEN StepsLoop(rest, sections, cur)
    ELSE StepsLoop(rest, sections, Section(cur.section, Append(cur.items, norm)))

StepsLoop(raw, sections, cur) ==
    IF Len(raw) = 0 THEN Flush(sections, cur)
    ELSE StepsLine(Tail(raw), sections, cur, Strip(Head(raw)),
                   StepsHeader(Strip(Head(raw))), normalize_step_text(Head(raw)))

\* a fallback that normalizes the lines as the main pass does
StepsFallback_Normalized(raw_steps) ==
    SelectSeq([i \in DOMAIN raw_steps |-> normalize_step_text(raw_steps[i])],
              LAMBDA x : Len(x) > 0 /\ Lower(x) \notin generic_labels)

\* the fallback list: stripped raw lines that are non-blank and no generic label
StepsFallback(raw_steps) ==
    SelectSeq([i \in DOMAIN raw_steps |-> Strip(raw_steps[i])],
              LAMBDA x : Len(x) > 0 /\ Lower(x) \notin generic_labels)

\* "if total_items == 0 and (raw_steps or [])": the fallback section, if it has items
StepsResult(raw_steps, sections, fallback) ==
    IF Len(sections) = 0 /\ Len(raw_steps) > 0 /\ Len(fallback) > 0
    THEN << Section(StepsName, fallback) >>
    ELSE sections

clean_steps(raw_steps) ==
    StepsResult(raw_steps, StepsLoop(raw_steps, <<>>, Section(StepsName, <<>>)),
                StepsFallback(raw_steps))

----------------------------------------------------------------------------
(* utils.clean_text                                                        *)

\* the no-break space, U+00A0, as one character
Nbsp == "U+00A0"

\* named character references and the character html.unescape puts for each
Reference(name, char) == [name |-> name, char |-> char]

References ==
    << Reference(<<"a", "m", "p", ";">>, "&"),
       Reference(<<"l", "t", ";">>, "<"),
       Reference(<<"n", "b", "s", "p", ";">>, Nbsp) >>

\* the reference that follows the "&" at i, 0 if none
ReferenceAt(s, i) ==
    IF \E k \in DOMAIN References : StartsWithAt(s, i + 1, References[k].name)
    THEN CHOOSE k \in DOMAIN References : StartsWithAt(s, i + 1, References[k].name)
    ELSE 0

\* html.unescape: one pass from left to right; what a reference decodes to is not
\* read again
RECURSIVE UnescapeFrom(_, _)
UnescapeAt(s, i, k) ==
    IF s[i] = "&" /\ k # 0
    THEN <<References[k].char>> \o UnescapeFrom(s, i + 1 + Len(References[k].name))
    ELSE <<s[i]>> \o UnescapeFrom(s, i + 1)

UnescapeFrom(s, i) == IF i > Len(s) THEN <<>> ELSE UnescapeAt(s, i, ReferenceAt(s, i))

html_unescape(s) == UnescapeFrom(s, 1)

\* the fraction slash, U+2044, as one character
FractionSlash == "U+2044"

\* the vulgar-fraction glyphs of parse_ingredient_line's pattern, each with its
\* compatibility decomposition
Vulgar(glyph, num, den) == [glyph |-> glyph, parts |-> <<num, FractionSlash, den>>]

VulgarFractions ==
    << Vulgar("U+00BC", "1", "4"), Vulgar("U+00BD", "1", "2"), Vulgar("U+00BE", "3", "4"),
       Vulgar("U+2153", "1", "3"), Vulgar("U+2154", "2", "3"), Vulgar("U+215B", "1", "8"),
       Vulgar("U+215C", "3", "8"), Vulgar("U+215D", "5", "8"), Vulgar("U+215E", "7", "8") >>

Glyphs == {VulgarFractions[k].glyph : k \in DOMAIN VulgarFractions}

ThreeQuarters == "U+00BE"

\* the compatibility decomposition of one character
Compat(c) ==
    IF c = Nbsp THEN <<" ">>
    ELSE IF c \in Glyphs
    THEN VulgarFractions[CHOOSE k \in DOMAIN VulgarFractions : VulgarFractions[k].glyph = c].parts
    ELSE <<c>>

\* unicodedata.normalize("NFKC", s): the no-break space becomes a space, a
\* vulgar-fraction glyph its numerator, a fraction slash and its denominator
RECURSIVE NFKC(_)
NFKC(s) == IF Len(s) = 0 THEN <<>> ELSE Compat(Head(s)) \o NFKC(Tail(s))

\* re.sub(r"\s+", " ", s)
RECURSIVE CollapseFrom(_, _)
CollapseFrom(s, i) ==
    IF i > Len(s) THEN <<>>
    ELSE IF IsSpace(s[i]) THEN <<" ">> \o CollapseFrom(s, SkipSpace(s, i))
    ELSE <<s[i]>> \o CollapseFrom(s, i + 1)

clean_text(s) == IF Len(s) = 0 THEN <<>> ELSE Strip(CollapseFrom(NFKC(html_unescape(s)), 1))

----------------------------------------------------------------------------
(* utils.parse_ingredient_line                                             *)

IngredientItem(name, quantity, unit) == [name |-> name, quantity |-> quantity, unit |-> unit]

IsLetter(c) == c \in Range(LowerLetters) \cup Range(UpperLetters)

\* index of the first "(" at or after i, Len(s)+1 if none
RECURSIVE FirstOpen(_, _)
FirstOpen(s, i) == IF i <= Len(s) /\ s[i] # "(" THEN FirstOpen(s, i + 1) ELSE i

\* index of the first blank at or after i, Len(s)+1 if none
RECURSIVE SkipWord(_, _)
SkipWord(s, i) == IF i <= Len(s) /\ ~IsSpace(s[i]) THEN SkipWord(s, i + 1) ELSE i

\* index of the first non-letter at or after i, Len(s)+1 if none
RECURSIVE SkipLetters(_, _)
SkipLetters(s, i) == IF i <= Len(s) /\ IsLetter(s[i]) THEN SkipLetters(s, i + 1) ELSE i

\* re.sub(r"\s*\(.*?\)\s*$", "", line): the leftmost match starts with the blanks
\* before the first "(", and there is one when the line, trailing blanks aside, ends
\* in a ")" after that "("
CutParenthetical(line, open, end) ==
    IF end >= 1 /\ line[end] = ")" /\ open < end
    THEN SubSeq(line, 1, LastNonSpace(line, open - 1))
    ELSE line

StripParenthetical(line) == CutParenthetical(line, FirstOpen(line, 1), LastNonSpace(line, Len(line)))

\* where [0-9]+/[0-9]+ ends when matched at i, 0 if it does not match; d is the end of
\* the first run of digits, e of the second
FractionEnds(s, i, d, e) == IF d > i /\ d <= Len(s) /\ s[d] = "/" /\ e > d + 1 THEN e - 1 ELSE 0

FractionEnd(s, i) == FractionEnds(s, i, SkipDigits(s, i), SkipDigits(s, SkipDigits(s, i) + 1))

\* [0-9]+(?:\s+[0-9]+/[0-9]+)? at the start of the line: all the digits, then the
\* fraction if blanks and a fraction follow
IntegerEnds(s, d, w) ==
    IF d = 1 THEN 0
    ELSE IF w > d /\ FractionEnd(s, w) # 0 THEN FractionEnd(s, w)
    ELSE d - 1

IntegerEnd(s) == IntegerEnds(s, SkipDigits(s, 1), SkipSpace(s, SkipDigits(s, 1)))

\* [0-9]*\.[0-9]+ at the start of the line
DecimalEnds(s, d, e) == IF d <= Len(s) /\ s[d] = "." /\ e > d + 1 THEN e - 1 ELSE 0

DecimalEnd(s) == DecimalEnds(s, SkipDigits(s, 1), SkipDigits(s, SkipDigits(s, 1) + 1))

\* one of the glyphs at the start of the line
GlyphEnd(s) == IF Len(s) > 0 /\ s[1] \in Glyphs THEN 1 ELSE 0

\* where group 1 of qty_match ends, 0 if the pattern does not match: the
\* alternatives are tried in the order written and the first that matches is kept,
\* the rest of the pattern, \s*(.*)$, matching whatever follows
QuantityEnd(s) ==
    IF IntegerEnd(s) # 0 THEN IntegerEnd(s)
    ELSE IF FractionEnd(s, 1) # 0 THEN FractionEnd(s, 1)
    ELSE IF DecimalEnd(s) # 0 THEN DecimalEnd(s)
    ELSE GlyphEnd(s)

\* re.match(r"^[A-Za-z]{1,6}\.?$", part); l is the end of the letters
IsUnitAt(part, l) ==
    /\ l \in 2..7
    /\ \/ l = Len(part) + 1
       \/ l = Len(part) /\ part[l] = "."

IsUnit(part) == IsUnitAt(part, SkipLetters(part, 1))

\* rest.split(None, 1) and what follows it; w is the end of the first part
Parts(qty, rest, w) ==
    IF Len(rest) = 0 THEN IngredientItem(rest, qty, <<>>)
    ELSE IF IsUnit(SubSeq(rest, 1, w - 1))
    THEN IngredientItem(Strip(From(rest, SkipSpace(rest, w))), qty, Strip(SubSeq(rest, 1, w - 1)))
    ELSE IngredientItem(rest, qty, <<>>)

Matched(line, q) ==
    IF q = 0 THEN IngredientItem(Strip(line), <<>>, <<>>)
    ELSE Parts(Strip(SubSeq(line, 1, q)),
               Strip(From(line, SkipSpace(line, q + 1))),
               SkipWord(Strip(From(line, SkipSpace(line, q + 1))), 1))

Parsed(line) == Matched(line, QuantityEnd(line))

parse_ingredient_line(line) == Parsed(StripParenthetical(clean_text(line)))

----------------------------------------------------------------------------
(* Values: JSON as json.loads returns it, and models.RecipeResponse        *)

\* A JSON value: k is its kind ("str", "num", "null", "list"), or "absent" for a key
\* the object does not hold
JStr(s) == [k |-> "str", s |-> s, n |-> 0, l |-> <<>>]

JNum(n) == [k |-> "num", s |-> <<>>, n |-> n, l |-> <<>>]

JNull == [k |-> "null", s |-> <<>>, n |-> 0, l |-> <<>>]

\* a JSON array of strings
JList(l) == [k |-> "list", s |-> <<>>, n |-> 0, l |-> l]

JAbsent == [k |-> "absent", s |-> <<>>, n |-> 0, l |-> <<>>]

\* the decimal digits of a natural number: str(n)
RECURSIVE DigitsOf(_)
DigitsOf(n) == IF n < 10 THEN <<Digits[n + 1]>> ELSE DigitsOf(n \div 10) \o <<Digits[(n % 10) + 1]>>

\* str(v) of a JSON string, number or null
PyStr(j) == IF j.k = "str" THEN j.s
            ELSE IF j.k = "num" THEN DigitsOf(j.n)
            ELSE <<"N", "o", "n", "e">>

\* bool(v): an empty string, 0, None and [] are falsy
Truthy(j) == \/ j.k = "str" /\ Len(j.s) > 0
             \/ j.k = "num" /\ j.n # 0
             \/ j.k = "list" /\ Len(j.l) > 0

\* image_url of a record the pipeline builds: None
NoImage == <<>>

RecipeResponse(title, author, source_url, prep_time, cook_time, total_time, servings, ingredients, steps, image_url) ==
    [title |-> title, author |-> author, source_url |-> source_url,
     prep_time |-> prep_time, cook_time |-> cook_time, total_time |-> total_time,
     servings |-> servings, ingredients |-> ingredients, steps |-> steps,
     image_url |-> image_url]

----------------------------------------------------------------------------
(* routes/recipes._is_valid_recipe                                         *)

has_title(r) == Len(Strip(r.title)) > 0

has_ings(r) == Len(r.ingredients) > 0

has_steps(r) == Len(r.steps) > 0

\* a looser rule, under which any one non-empty field makes a record valid
valid_if_any_field(r) == has_title(r) \/ has_ings(r) \/ has_steps(r)

_is_valid_recipe(r) == has_title(r) \/ (has_ings(r) /\ has_steps(r))

----------------------------------------------------------------------------
(* extraction._normalize_ai_recipe_dict and extraction.ai_extract          *)

\* A model response body: text json.loads rejects, or the JSON value it parses to.
\* An object is [k |-> "obj", f |-> its keys' values], a missing key being JAbsent.
NotJson == [k |-> "notjson"]

JObj(title, author, source_url, prep_time, cook_time, total_time, servings, ingredients, steps) ==
    [k |-> "obj",
     f |-> [title |-> title, author |-> author, source_url |-> source_url,
            prep_time |-> prep_time, cook_time |-> cook_time, total_time |-> total_time,
            servings |-> servings, ingredients |-> ingredients, steps |-> steps]]

EmptyObj == JObj(JAbsent, JAbsent, JAbsent, JAbsent, JAbsent, JAbsent, JAbsent, JAbsent, JAbsent)

\* "try: data = json.loads(content) except Exception: data = {}"
LoadsOrEmpty(content) == IF content.k = "notjson" THEN EmptyObj ELSE content

\* data.get(f, "") after "if f not in data: data[f] = ''"
OrEmptyStr(j) == IF j.k = "absent" THEN JStr(<<>>) ELSE j

\* time_to_minutes(v) of a JSON value: "if not text: return 0", then str(text)
TimeOfJson(j) == IF ~Truthy(j) THEN Returned(0) ELSE time_to_minutes(PyStr(j))

\* "if not isinstance(data.get(f), list): data[f] = []"
ListOrEmpty(j) == IF j.k = "list" THEN j.l ELSE <<>>

AnyRaised(a, b, c) == a.raised \/ b.raised \/ c.raised

\* a normalization that keeps the source_url of the response when it has one
BuildRecord_ModelUrl(f, url, title, author, pt, ct, tt) ==
    IF AnyRaised(pt, ct, tt) THEN Raised
    ELSE IF title.k # "str" \/ author.k # "str" THEN Raised
    ELSE Returned(RecipeResponse(
             title.s, author.s,
             IF Truthy(f.source_url) THEN PyStr(f.source_url) ELSE url,
             pt.val, ct.val, tt.val,
             PyStr(OrEmptyStr(f.servings)),
             ListOrEmpty(f.ingredients), ListOrEmpty(f.steps), NoImage))

\* RecipeResponse(**data) over the normalized dict; pydantic rejects a title or an
\* author that is no string (the responses of the model hold a string or null there)
BuildRecord(f, url, title, author, pt, ct, tt) ==
    IF AnyRaised(pt, ct, tt) THEN Raised
    ELSE IF title.k # "str" \/ author.k # "str" THEN Raised
    ELSE Returned(RecipeResponse(
             title.s, author.s,
             IF Len(url) > 0 THEN url ELSE PyStr(OrEmptyStr(f.source_url)),
             pt.val, ct.val, tt.val,
             PyStr(OrEmptyStr(f.servings)),
             ListOrEmpty(f.ingredients), ListOrEmpty(f.steps), NoImage))

\* _normalize_ai_recipe_dict(data, url) over the keys f of a dict
NormalizeDict(f, url) ==
    BuildRecord(f, url, OrEmptyStr(f.title), OrEmptyStr(f.author),
                TimeOfJson(OrEmptyStr(f.prep_time)),
                TimeOfJson(OrEmptyStr(f.cook_time)),
                TimeOfJson(OrEmptyStr(f.total_time)))

\* _normalize_ai_recipe_dict(data, url), then RecipeResponse(**data): the record, or
\* Raised when data is no dict (item assignment fails), when a duration divides by
\* zero, or when pydantic rejects a field
NormalizeAndBuild(data, url) == IF data.k # "obj" THEN Raised ELSE NormalizeDict(data.f, url)

\* ai_extract(text, url) once client.complete has returned `content`
ai_extract(content, url) == NormalizeAndBuild(LoadsOrEmpty(content), url)

----------------------------------------------------------------------------
(* extraction.ai_refine_missing_fields, one operator per pass              *)

\* [str(s).strip() for s in xs if str(s).strip()]
StripNonBlank(xs) == SelectSeq([i \in DOMAIN xs |-> Strip(xs[i])], LAMBDA x : Len(x) > 0)

\* "if not (updated.steps and len(updated.steps) > 0)"
NeedSteps(updated) == Len(updated.steps) = 0

\* "if not (updated.ingredients and len(updated.ingredients) > 0)"
NeedIngredients(updated) == Len(updated.ingredients) = 0

\* the timings are asked for only when all three are missing
NeedTimes_All(updated) ==
    updated.prep_time = 0 /\ updated.cook_time = 0 /\ updated.total_time = 0

\* "if (not updated.prep_time) or (not updated.cook_time) or (not updated.total_time)"
NeedTimes(updated) ==
    updated.prep_time = 0 \/ updated.cook_time = 0 \/ updated.total_time = 0

need_title(updated) == Len(Strip(updated.title)) = 0

need_author(updated) == Len(Strip(updated.author)) = 0

need_servings(updated) == Len(Strip(updated.servings)) = 0

NeedMeta(updated) == need_title(updated) \/ need_author(updated) \/ need_servings(updated)

\* call(prompt) once client.complete has returned `content`: json.loads(content), or {}
call(content) == LoadsOrEmpty(content)

\* the steps pass; d.get on a value that is no dict raises AttributeError
RefineSteps(updated, d, url) ==
    IF d.k # "obj" THEN Raised
    ELSE IF d.f.steps.k = "list" /\ Len(d.f.steps.l) > 0
    THEN Returned([updated EXCEPT !.source_url = url, !.steps = StripNonBlank(d.f.steps.l)])
    ELSE Returned(updated)

\* the ingredients pass
RefineIngredients(updated, d, url) ==
    IF d.k # "obj" THEN Raised
    ELSE IF d.f.ingredients.k = "list" /\ Len(d.f.ingredients.l) > 0
    THEN Returned([updated EXCEPT !.source_url = url,
                                  !.ingredients = StripNonBlank(d.f.ingredients.l)])
    ELSE Returned(updated)

\* "updated.prep_time or pt"
OrElse(a, b) == IF a # 0 THEN a ELSE b

WithTimes(updated, url, pt, ct, tt) ==
    IF AnyRaised(pt, ct, tt) THEN Raised
    ELSE Returned([updated EXCEPT !.source_url = url,
                                  !.prep_time = OrElse(@, pt.val),
                                  !.cook_time = OrElse(@, ct.val),
                                  !.total_time = OrElse(@, tt.val)])

\* the timings pass: t2m(str(d.get(f, ""))) for the three fields
RefineTimes(updated, d, url) ==
    IF d.k # "obj" THEN Raised
    ELSE WithTimes(updated, url,
                   time_to_minutes(PyStr(OrEmptyStr(d.f.prep_time))),
                   time_to_minutes(PyStr(OrEmptyStr(d.f.cook_time))),
                   time_to_minutes(PyStr(OrEmptyStr(d.f.total_time))))

\* a pass that takes every field the response holds, needed or not
MetaField_Always(need, j, old) == IF j.k \notin {"absent", "null"} THEN PyStr(j) ELSE old

\* "str(d.get(f)) if need and d.get(f) is not None else updated.f"
MetaField(need, j, old) == IF need /\ j.k \notin {"absent", "null"} THEN PyStr(j) ELSE old

\* the title/author/servings pass
RefineMeta(updated, d, url) ==
    IF d.k # "obj" THEN Raised
    ELSE Returned([updated EXCEPT
             !.source_url = url,
             !.title = MetaField(need_title(updated), d.f.title, @),
             !.author = MetaField(need_author(updated), d.f.author, @),
             !.servings = MetaField(need_servings(updated), d.f.servings, @)])

----------------------------------------------------------------------------
(* extraction.heuristic_extract                                            *)

\* what a selector finds in the page: an element with its text, or None
El(text) == [found |-> TRUE, text |-> text]

NoEl == [found |-> FALSE, text |-> <<>>]

\* "a or b or c" over select_one results (an element is truthy, None is not)
FirstFound(els) ==
    IF \E i \in DOMAIN els : els[i].found
    THEN els[CHOOSE i \in DOMAIN els : els[i].found /\ \A k \in 1..(i - 1) : ~els[k].found]
    ELSE NoEl

\* "el.get_text(strip=True) if el else ''"
TextOf(el) == IF el.found THEN Strip(el.text) ELSE <<>>

StripAll(xs) == [i \in DOMAIN xs |-> Strip(xs[i])]

HeuristicRecord(soup, url, title, author, pt, ct, tt) ==
    IF AnyRaised(pt, ct, tt) THEN Raised
    ELSE Returned(RecipeResponse(
             TextOf(title), TextOf(author), url, pt.val, ct.val, tt.val,
             TextOf(soup.servings), StripAll(soup.li), StripAll(soup.p), NoImage))

\* the record, or Raised when the Duration Parser raises on a time element's text
heuristic_extract(soup, url) ==
    HeuristicRecord(soup, url,
                    FirstFound(<<soup.h1, soup.recipe_title, soup.title>>),
                    FirstFound(<<soup.author, soup.byline>>),
                    time_to_minutes(TextOf(soup.prep_time)),
                    time_to_minutes(TextOf(soup.cook_time)),
                    time_to_minutes(TextOf(soup.total_time)))

----------------------------------------------------------------------------
(* extraction.convert_to_ui_recipe and the recipes table of db.py          *)

convert_to_ui_recipe(recipe) ==
    [title |-> recipe.title, author |-> recipe.author, source_url |-> recipe.source_url,
     prep_time |-> recipe.prep_time, cook_time |-> recipe.cook_time,
     total_time |-> recipe.total_time, servings |-> recipe.servings,
     ingredients |-> clean_ingredients(recipe.ingredients),
     steps |-> clean_steps(recipe.steps)]

\* the image_url column of a row no upload has touched: NULL
NullImage == <<>>

\* the key save_recipe writes under: the stripped source_url, or, when that is
\* empty, "generated:" and a hash over the clock, which no other row holds
RowKey(recipe, fresh) ==
    IF Len(Strip(recipe.source_url)) > 0 THEN Strip(recipe.source_url)
    ELSE <<"generated:">> \o DigitsOf(fresh)

\* the row INSERT writes; ingredients_json and steps_json hold the section lists
NewRow(id, key, ui) ==
    [id |-> id, source_url |-> key, title |-> ui.title, author |-> ui.author,
     prep_time |-> ui.prep_time, cook_time |-> ui.cook_time, total_time |-> ui.total_time,
     servings |-> ui.servings, ingredients_json |-> ui.ingredients,
     steps_json |-> ui.steps, image_url |-> NullImage]

\* INSERT OR REPLACE in place of the ON CONFLICT clause: the row is written anew
ReplacedRow(row, ui) == NewRow(row.id, row.source_url, ui)

\* a DO UPDATE SET list without the two JSON columns: they stay as they were
UpdatedRow_Scalars(row, ui) ==
    [row EXCEPT !.title = ui.title, !.author = ui.author,
                !.prep_time = ui.prep_time, !.cook_time = ui.cook_time,
                !.total_time = ui.total_time, !.servings = ui.servings]

\* ON CONFLICT(source_url) DO UPDATE SET ...: id, source_url and image_url stay
UpdatedRow(row, ui) ==
    [row EXCEPT !.title = ui.title, !.author = ui.author,
                !.prep_time = ui.prep_time, !.cook_time = ui.cook_time,
                !.total_time = ui.total_time, !.servings = ui.servings,
                !.ingredients_json = ui.ingredients, !.steps_json = ui.steps]

\* a table without the UNIQUE constraint on source_url: every save inserts
Upsert_Insert(rows, id, key, ui) == rows \cup {NewRow(id, key, ui)}

\* the table after save_recipe(recipe) has committed; id is the next AUTOINCREMENT id
Upsert(rows, id, key, ui) ==
    IF \E r \in rows : r.source_url = key
    THEN {IF r.source_url = key THEN UpdatedRow(r, ui) ELSE r : r \in rows}
    ELSE rows \cup {NewRow(id, key, ui)}

save_recipe(rows, recipe, id) ==
    Upsert(rows, id, RowKey(recipe, id), convert_to_ui_recipe(recipe))

\* the table after delete_by_source_url
delete_by_source_url(rows, source_url) == {r \in rows : r.source_url # source_url}

RECURSIVE RowsByIdDesc(_)
\* ORDER BY id ASC
TopLast(rows, top) == RowsByIdDesc(rows \ {top}) \o <<top>>

TopFirst(rows, top) == <<top>> \o RowsByIdDesc(rows \ {top})

RowsByIdDesc(rows) ==
    IF rows = {} THEN <<>>
    ELSE TopFirst(rows, CHOOSE r \in rows : \A q \in rows : q.id <= r.id)

\* the RecipeForUI get_all_recipes builds from a row (RecipeForUI has no image_url)
RecipeForUI(row) ==
    [title |-> row.title, author |-> row.author, source_url |-> row.source_url,
     prep_time |-> row.prep_time, cook_time |-> row.cook_time,
     total_time |-> row.total_time, servings |-> row.servings,
     ingredients |-> row.ingredients_json, steps |-> row.steps_json]

\* get_all_recipes: SELECT ... ORDER BY id DESC
ForUI(sorted) == [i \in DOMAIN sorted |-> RecipeForUI(sorted[i])]

get_all_recipes(rows) == ForUI(RowsByIdDesc(rows))

----------------------------------------------------------------------------
(* The inputs of the model: the pages fetch_html returns and the bodies    *)
(* client.complete returns                                                 *)

Urls == { <<"u">>, <<"v">> }

\* the URL of the extract requests
RequestUrls == { <<"u">> }

Txt_Pie == <<"P", "i", "e">>

Txt_45min == <<"4", "5", " ", "m", "i", "n">>

\* a duration whose fraction has a zero denominator
Txt_ZeroDen == <<"1", " ", "1", "/", "0", " ", "h">>

Txt_Flour == <<" ", "2", " ", "c", "u", "p", "s">>

Txt_Mix == <<"1", ".", " ", "M", "i", "x">>

Txt_Bake == <<"B", "a", "k", "e">>

Txt_Egg == <<"1", " ", "e", "g", "g">>

Page(h1, li, p, prep_time) ==
    [h1 |-> h1, recipe_title |-> NoEl, title |-> NoEl, author |-> NoEl, byline |-> NoEl,
     li |-> li, p |-> p, prep_time |-> prep_time, cook_time |-> NoEl,
     total_time |-> NoEl, servings |-> NoEl]

\* a page no selector matches, and a page with a heading, a list item and two
\* paragraphs; each without and with a .prep-time element
Soups ==
    { Page(b[1], b[2], b[3], pt) :
        b  \in { <<NoEl, <<>>, <<>>>>, <<El(Txt_Pie), <<Txt_Egg>>, <<Txt_Mix, Txt_Bake>>>> },
        pt \in {NoEl, El(Txt_ZeroDen)} }

\* no page: the value of soup outside a request
NoSoup == Page(NoEl, <<>>, <<>>, NoEl)

\* bodies that parse to something that is no JSON object
WrongShape == { JList(<<>>), JNull, JNum(7) }

\* the source_url the model puts in its objects: not the URL of the request
ModelUrl == <<"v">>

\* an object of the extraction call with the keys title, prep_time, ingredients, steps
\* and a source_url of the model's own
ExtractObj(title, pt, ings, steps) ==
    JObj(title, JAbsent, JStr(ModelUrl), pt, JAbsent, JAbsent, JAbsent, ings, steps)

\* bodies of the extraction call: no JSON, JSON that is no object, and objects that
\* are empty, valid by the title, valid by both lists, invalid with a blank title and
\* steps only, invalid with a list that is no list, with a null title, and with a
\* duration that has a zero denominator
ExtractContents ==
    {NotJson} \cup WrongShape \cup
    { ExtractObj(JAbsent, JAbsent, JAbsent, JList(<<>>)),
      ExtractObj(JStr(Txt_Pie), JAbsent, JAbsent, JList(<<>>)),
      ExtractObj(JAbsent, JNum(30), JList(<<Txt_Flour>>), JList(<<Txt_Mix>>)),
      ExtractObj(JStr(<<" ">>), JAbsent, JAbsent, JList(<<Txt_Mix>>)),
      ExtractObj(JAbsent, JNum(30), JStr(Txt_Flour), JList(<<>>)),
      ExtractObj(JNull, JAbsent, JList(<<Txt_Flour>>), JList(<<Txt_Mix>>)),
      ExtractObj(JStr(Txt_Pie), JStr(Txt_ZeroDen), JAbsent, JList(<<>>)) }

\* bodies of the refinement calls; each pass reads its own keys
RefineContents ==
    { NotJson, JList(<<>>),
      JObj(JStr(Txt_Pie), JStr(<<"A", "n", "n">>), JAbsent, JStr(Txt_45min), JNum(20),
           JAbsent, JNum(4), JList(<<Txt_Egg>>), JList(<<Txt_Bake>>)),
      JObj(JStr(<<" ">>), JNull, JAbsent, JStr(Txt_ZeroDen), JAbsent,
           JAbsent, JAbsent, JList(<<<<" ">>>>), JList(<<<<" ">>>>)) }

----------------------------------------------------------------------------
(* State                                                                   *)

VARIABLES
    pc,         \* where the extract request stands
    url,        \* its url parameter
    soup,       \* the parsed page
    updated,    \* the record in hand: ai_extract's, then the refiner's `updated`
    response,   \* what the request returned
    log,        \* history of the request: which stages ran and how each ended
    recipes,    \* the rows of the recipes table
    nextId,     \* the next AUTOINCREMENT id
    hist        \* history of the committed store operations

pipeVars == <<pc, url, soup, updated, response, log>>

storeVars == <<recipes, nextId>>

vars == <<pc, url, soup, updated, response, log, recipes, nextId, hist>>

NoRecord == RecipeResponse(<<>>, <<>>, <<>>, 0, 0, 0, <<>>, <<>>, <<>>, NoImage)

\* what a route answered
Answer(handler, status, body) == [handler |-> handler, status |-> status, body |-> body]

NoResponse == Answer("none", 0, NoRecord)

NoCalls == [fetch |-> 0, model |-> 0, steps |-> 0, ingredients |-> 0, times |-> 0,
            meta |-> 0, heuristic |-> 0, save |-> 0]

\* what each refinement call got for a body
NoBodies == [steps |-> "none", ingredients |-> "none", times |-> "none", meta |-> "none"]

EmptyLog ==
    [fetch |-> "none", model |-> "none", content |-> "none", modelRec |-> NoRecord,
     refine |-> "none", refinedRec |-> NoRecord,
     heuristic |-> "none", heurRec |-> NoRecord,
     modelGate |-> "none", refinedGate |-> "none",
     save |-> "none", savePoint |-> "none", calls |-> NoCalls, bodies |-> NoBodies,
     rowsBefore |-> {}]

PipeInit ==
    /\ pc = "idle"
    /\ url = <<>>
    /\ soup = NoSoup
    /\ updated = NoRecord
    /\ response = NoResponse
    /\ log = EmptyLog

\* init_db(): the table exists and is empty
StoreInit ==
    /\ recipes = {}
    /\ nextId = 1

\* what has been committed so far: per key the record of the last save_recipe,
\* whether the key was saved once or again, whether the last save came with other
\* ingredients than the one before, and the last image an upload set; the keys by
\* creation and by save, latest first
EmptyHist == [rows |-> {}, created |-> <<>>, upserted |-> <<>>]

Init == PipeInit /\ StoreInit /\ hist = EmptyHist

Called(what) == [log.calls EXCEPT ![what] = @ + 1]

\* the body is well-formed: a JSON object whose title and author, if any, are strings
WellFormed(content) ==
    /\ content.k = "obj"
    /\ content.f.title.k \in {"absent", "str"}
    /\ content.f.author.k \in {"absent", "str"}

ContentKind(content) ==
    IF content.k = "notjson" THEN "notjson"
    ELSE IF WellFormed(content) THEN "obj" ELSE "wrongshape"

----------------------------------------------------------------------------
(* routes/recipes.extract, one action per stage of the request             *)

\* a handler that answers a failed fetch from an empty page instead of with 502
FetchFails_FallsBack ==
    /\ pc = "idle"
    /\ \E u \in RequestUrls : url' = u
    /\ soup' = NoSoup
    /\ pc' = "heuristic"
    /\ log' = [log EXCEPT !.fetch = "failed", !.calls = Called("fetch"),
                          !.rowsBefore = recipes]
    /\ UNCHANGED <<updated, response, recipes, nextId, hist>>

\* fetch_html(url) raises: HTTPException(502), nothing else runs
Extract_FetchFails ==
    /\ pc = "idle"
    /\ \E u \in RequestUrls : url' = u
    /\ pc' = "done"
    /\ response' = Answer("extract", 502, NoRecord)
    /\ log' = [log EXCEPT !.fetch = "failed", !.calls = Called("fetch"),
                          !.rowsBefore = recipes]
    /\ UNCHANGED <<soup, updated, recipes, nextId, hist>>

\* fetch_html(url) returns the page; soup = BeautifulSoup(html)
Extract_Fetch ==
    /\ pc = "idle"
    /\ \E u \in RequestUrls : url' = u
    /\ \E s \in Soups : soup' = s
    /\ pc' = "model"
    /\ log' = [log EXCEPT !.fetch = "ok", !.calls = Called("fetch"),
                          !.rowsBefore = recipes]
    /\ UNCHANGED <<updated, response, recipes, nextId, hist>>

\* ai_extract: client.complete raises; "except Exception" of extract falls to the heuristic
Extract_ModelCallRaises ==
    /\ pc = "model"
    /\ pc' = "heuristic"
    /\ log' = [log EXCEPT !.model = "call_raised", !.calls = Called("model")]
    /\ UNCHANGED <<url, soup, updated, response, recipes, nextId, hist>>

\* a handler without the gate on the model record: every record goes to the refiner
Gate_Ungated(recipe, kind, valid) ==
    /\ pc' = "refine_steps"
    /\ updated' = recipe
    /\ log' = [log EXCEPT !.model = "returned", !.content = kind,
                          !.modelRec = recipe, !.calls = Called("model"),
                          !.modelGate = IF valid THEN "valid" ELSE "invalid"]

\* where extract goes with the outcome r of ai_extract on a body of kind `kind`
\* "if _is_valid_recipe(recipe): save and return", else the refiner
Gate(recipe, kind, valid) ==
    /\ updated' = recipe
    /\ pc' = IF valid THEN "save" ELSE "refine_steps"
    /\ log' = [log EXCEPT !.model = "returned", !.content = kind,
                          !.modelRec = recipe, !.calls = Called("model"),
                          !.modelGate = IF valid THEN "valid" ELSE "invalid",
                          !.savePoint = IF valid THEN "model" ELSE @]

AfterModel(r, kind) ==
    IF r.raised
    THEN /\ pc' = "heuristic"
         /\ log' = [log EXCEPT !.model = "raised", !.content = kind,
                               !.calls = Called("model")]
         /\ UNCHANGED updated
    ELSE Gate(r.val, kind, _is_valid_recipe(r.val))

\* ai_extract: client.complete returns a body; the record is gated by _is_valid_recipe
Extract_Model ==
    /\ pc = "model"
    /\ \E content \in ExtractContents : AfterModel(ai_extract(content, url), ContentKind(content))
    /\ UNCHANGED <<url, soup, response, recipes, nextId, hist>>

\* a pass whose trigger does not hold issues no call
PassSkipped(next) ==
    /\ pc' = next
    /\ UNCHANGED <<updated, log>>

\* client.complete raises inside call(): ai_refine_missing_fields raises
PassCallRaises(what) ==
    /\ pc' = "heuristic"
    /\ log' = [log EXCEPT !.refine = "raised", !.calls = Called(what)]
    /\ UNCHANGED updated

\* the body of a refinement call: no JSON, JSON that is no object, or an object
BodyKind(content) ==
    IF content.k = "notjson" THEN "notjson" ELSE IF content.k = "obj" THEN "object" ELSE "notobject"

\* the pass got a body of that kind and ended with r
PassCalled(what, r, next, kind) ==
    IF r.raised
    THEN /\ pc' = "heuristic"
         /\ log' = [log EXCEPT !.refine = "raised", !.calls = Called(what), !.bodies[what] = kind]
         /\ UNCHANGED updated
    ELSE /\ updated' = r.val
         /\ pc' = next
         /\ log' = [log EXCEPT !.calls = Called(what), !.bodies[what] = kind]

Refine_Steps ==
    /\ pc = "refine_steps"
    /\ \/ ~NeedSteps(updated) /\ PassSkipped("refine_ingredients")
       \/ NeedSteps(updated) /\ PassCallRaises("steps")
       \/ /\ NeedSteps(updated)
          /\ \E content \in RefineContents :
                PassCalled("steps", RefineSteps(updated, call(content), url), "refine_ingredients", BodyKind(content))
    /\ UNCHANGED <<url, soup, response, recipes, nextId, hist>>

Refine_Ingredients ==
    /\ pc = "refine_ingredients"
    /\ \/ ~NeedIngredients(updated) /\ PassSkipped("refine_times")
       \/ NeedIngredients(updated) /\ PassCallRaises("ingredients")
       \/ /\ NeedIngredients(updated)
          /\ \E content \in RefineContents :
                PassCalled("ingredients", RefineIngredients(updated, call(content), url),
                           "refine_times", BodyKind(content))
    /\ UNCHANGED <<url, soup, response, recipes, nextId, hist>>

Refine_Times ==
    /\ pc = "refine_times"
    /\ \/ ~NeedTimes(updated) /\ PassSkipped("refine_meta")
       \/ NeedTimes(updated) /\ PassCallRaises("times")
       \/ /\ NeedTimes(updated)
          /\ \E content \in RefineContents :
                PassCalled("times", RefineTimes(updated, call(content), url), "refine_meta", BodyKind(content))
    /\ UNCHANGED <<url, soup, response, recipes, nextId, hist>>

Refine_Meta ==
    /\ pc = "refine_meta"
    /\ \/ ~NeedMeta(updated) /\ PassSkipped("refined")
       \/ NeedMeta(updated) /\ PassCallRaises("meta")
       \/ /\ NeedMeta(updated)
          /\ \E content \in RefineContents :
                PassCalled("meta", RefineMeta(updated, call(content), url), "refined", BodyKind(content))
    /\ UNCHANGED <<url, soup, response, recipes, nextId, hist>>

\* ai_refine_missing_fields returned `updated`; the refined record is gated
GateRefined(valid) ==
    /\ pc' = IF valid THEN "save" ELSE "heuristic"
    /\ log' = [log EXCEPT !.refine = "returned", !.refinedRec = updated,
                          !.refinedGate = IF valid THEN "valid" ELSE "invalid",
                          !.savePoint = IF valid THEN "refined" ELSE @]

Extract_Refined ==
    /\ pc = "refined"
    /\ GateRefined(_is_valid_recipe(updated))
    /\ UNCHANGED <<url, soup, updated, response, recipes, nextId, hist>>

\* heuristic_extract(soup, url), outside every try: what it raises leaves extract
AfterHeuristic(r) ==
    IF r.raised
    THEN /\ pc' = "done"
         /\ response' = Answer("extract", 500, NoRecord)
         /\ log' = [log EXCEPT !.heuristic = "raised", !.calls = Called("heuristic")]
         /\ UNCHANGED updated
    ELSE /\ pc' = "save"
         /\ updated' = r.val
         /\ log' = [log EXCEPT !.heuristic = "returned", !.heurRec = r.val,
                               !.calls = Called("heuristic"),
                               !.savePoint = "heuristic"]
         /\ UNCHANGED response

Extract_Heuristic ==
    /\ pc = "heuristic"
    /\ AfterHeuristic(heuristic_extract(soup, url))
    /\ UNCHANGED <<url, soup, recipes, nextId, hist>>

Without(keys, key) == SelectSeq(keys, LAMBDA k : k # key)

Known(h, key) == \E g \in h.rows : g.key = key

\* the history after save_recipe(recipe) committed under key
HistSave(h, key, recipe) ==
    [rows |-> IF Known(h, key)
              THEN {IF g.key = key
                    THEN [g EXCEPT !.last = recipe, !.saves = 2,
                                   !.changed = (recipe.ingredients # g.last.ingredients)]
                    ELSE g : g \in h.rows}
              ELSE h.rows \cup {[key |-> key, last |-> recipe, saves |-> 1,
                                 changed |-> FALSE, upload |-> NullImage]},
     created |-> IF Known(h, key) THEN h.created ELSE <<key>> \o h.created,
     upserted |-> <<key>> \o Without(h.upserted, key)]

\* the history after the rows of key were deleted
HistDelete(h, key) ==
    [rows |-> {g \in h.rows : g.key # key},
     created |-> Without(h.created, key),
     upserted |-> Without(h.upserted, key)]

\* the history after an upload set image_url on the row of key
HistUpload(h, key, image_url) ==
    [h EXCEPT !.rows = {IF g.key = key THEN [g EXCEPT !.upload = image_url] ELSE g : g \in h.rows}]

\* the commit of save_recipe(recipe): the table, the id counter, the history
Commit(recipe) ==
    /\ recipes' = save_recipe(recipes, recipe, nextId)
    /\ nextId' = IF \E r \in recipes : r.source_url = RowKey(recipe, nextId)
                 THEN nextId ELSE nextId + 1
    /\ hist' = HistSave(hist, RowKey(recipe, nextId), recipe)

\* "try: save_recipe(recipe) ... return recipe", the write committing
Extract_Save ==
    /\ pc = "save"
    /\ Commit(updated)
    /\ pc' = "done"
    /\ response' = Answer("extract", 200, updated)
    /\ log' = [log EXCEPT !.save = "ok", !.calls = Called("save")]
    /\ UNCHANGED <<url, soup, updated>>

\* a handler without the try around save_recipe: the failed write is caught by the
\* "except Exception" around the model stages and the heuristic extractor runs
SaveFails_FallsBack ==
    /\ pc = "save"
    /\ pc' = IF log.savePoint = "heuristic" THEN "done" ELSE "heuristic"
    /\ response' = IF log.savePoint = "heuristic" THEN Answer("extract", 500, NoRecord)
                   ELSE response
    /\ log' = [log EXCEPT !.save = "failed", !.calls = Called("save")]
    /\ UNCHANGED <<url, soup, updated, recipes, nextId, hist>>

\* "except Exception as db_err: print(...)", then "return recipe"
Extract_SaveFails ==
    /\ pc = "save"
    /\ pc' = "done"
    /\ response' = Answer("extract", 200, updated)
    /\ log' = [log EXCEPT !.save = "failed", !.calls = Called("save")]
    /\ UNCHANGED <<url, soup, updated, recipes, nextId, hist>>

\* the request is over; the next one starts from the table as it stands
NextRequest ==
    /\ pc = "done"
    /\ pc' = "idle"
    /\ url' = <<>>
    /\ soup' = NoSoup
    /\ updated' = NoRecord
    /\ response' = NoResponse
    /\ log' = EmptyLog
    /\ UNCHANGED <<recipes, nextId, hist>>

Next ==
    \/ Extract_FetchFails
    \/ Extract_Fetch
    \/ Extract_ModelCallRaises
    \/ Extract_Model
    \/ Refine_Steps
    \/ Refine_Ingredients
    \/ Refine_Times
    \/ Refine_Meta
    \/ Extract_Refined
    \/ Extract_Heuristic
    \/ Extract_Save
    \/ Extract_SaveFails
    \/ NextRequest

Spec == Init /\ [][Next]_vars

\* a request that has started is run to its end: every call returns or raises
SpecLive == Spec /\ WF_vars(Next)

----------------------------------------------------------------------------
(* The store and its routes: save_recipe, DELETE /recipes, POST             *)
(* /recipes/upload-image, GET /recipes                                      *)

\* AUTOINCREMENT ids handed out in a run
MaxId == 2

Txt_Blank == <<" ">>

\* records handed to save_recipe: two URLs and a blank one, two ingredient lists
StoreRecipe(source_url, ingredients) ==
    RecipeResponse(Txt_Pie, <<>>, source_url, 0, 0, 0, <<>>, ingredients, <<Txt_Mix>>, NoImage)

StoreRecipes ==
    {StoreRecipe(u, ings) : u \in Urls \cup {Txt_Blank}, ings \in {<<Txt_Flour>>, <<Txt_Egg>>}}

\* content types of uploaded files and the extension of each allowed one
ContentTypes == {"image/jpeg", "image/png", "text/plain"}

NoExt == <<>>

allowed(content_type) ==
    IF content_type = "image/jpeg" THEN <<".jpg">>
    ELSE IF content_type = "image/png" THEN <<".png">>
    ELSE IF content_type = "image/webp" THEN <<".webp">>
    ELSE IF content_type = "image/gif" THEN <<".gif">>
    ELSE NoExt

\* "/uploads/" + sha256(source_url).hexdigest()[:16] + ext; the digest is kept as
\* the text it was taken of, under a tag
UploadedImage(source_url, ext) == <<"/uploads/", "sha256:">> \o source_url \o ext

\* UPDATE recipes SET image_url = ? WHERE source_url = ?
SetImage(rows, source_url, image_url) ==
    {IF r.source_url = source_url THEN [r EXCEPT !.image_url = image_url] ELSE r : r \in rows}

RowCount(rows, source_url) == Cardinality({r \in rows : r.source_url = source_url})

StoreSpecInit ==
    /\ PipeInit
    /\ StoreInit
    /\ hist = EmptyHist

\* save_recipe(recipe) commits; a new row takes the next id
Store_Save ==
    /\ \E recipe \in StoreRecipes :
          /\ Known(hist, RowKey(recipe, nextId)) \/ nextId <= MaxId
          /\ Commit(recipe)
          /\ response' = Answer("save_recipe", 200, recipe)
    /\ UNCHANGED <<pc, url, soup, updated, log>>

\* DELETE /recipes?source_url=...
Store_Delete ==
    /\ \E source_url \in Urls :
          /\ recipes' = delete_by_source_url(recipes, source_url)
          /\ hist' = HistDelete(hist, source_url)
          /\ response' = Answer("delete_recipe", 200, RowCount(recipes, source_url))
    /\ UNCHANGED <<pc, url, soup, updated, log, nextId>>

\* the UPDATE of upload_recipe_image and what the route answers
UploadTo(source_url, image_url) ==
    IF RowCount(recipes, source_url) = 0
    THEN /\ response' = Answer("upload_recipe_image", 200, <<"error">>)
         /\ UNCHANGED <<recipes, hist>>
    ELSE /\ recipes' = SetImage(recipes, source_url, image_url)
         /\ hist' = HistUpload(hist, source_url, image_url)
         /\ response' = Answer("upload_recipe_image", 200, image_url)

Upload(source_url, ext) ==
    IF ext = NoExt
    THEN /\ response' = Answer("upload_recipe_image", 200, <<"error">>)
         /\ UNCHANGED <<recipes, hist>>
    ELSE UploadTo(source_url, UploadedImage(source_url, ext))

\* POST /recipes/upload-image
Store_Upload ==
    /\ \E source_url \in Urls, content_type \in ContentTypes :
          Upload(source_url, allowed(content_type))
    /\ UNCHANGED <<pc, url, soup, updated, log, nextId>>

\* GET /recipes
Store_List ==
    /\ response' = Answer("list_recipes", 200, get_all_recipes(recipes))
    /\ UNCHANGED <<pc, url, soup, updated, log, recipes, nextId, hist>>

StoreNext ==
    \/ Store_Save
    \/ Store_Delete
    \/ Store_Upload
    \/ Store_List

SpecStore == StoreSpecInit /\ [][StoreNext]_vars

----------------------------------------------------------------------------
(* Two extract requests for one URL, served at the same time                *)
(* Here pc, updated and response hold one value per request, and log holds  *)
(* the order in which the requests committed.                               *)

Requests == {1, 2}

RaceUrl == <<"u">>

Txt_Tart == <<"T", "a", "r", "t">>

\* the records the two pipelines may end with: they differ in title and ingredients
RaceRecords ==
    { RecipeResponse(Txt_Pie, <<>>, RaceUrl, 0, 0, 0, <<>>, <<Txt_Flour>>, <<Txt_Mix>>, NoImage),
      RecipeResponse(Txt_Tart, <<>>, RaceUrl, 30, 0, 0, <<>>, <<Txt_Egg>>, <<Txt_Bake>>, NoImage),
      RecipeResponse(Txt_Pie, <<>>, RaceUrl, 0, 0, 0, <<>>, <<Txt_Egg>>, <<>>, NoImage) }

RaceInit ==
    /\ pc = [p \in Requests |-> "idle"]
    /\ url = RaceUrl
    /\ soup = NoSoup
    /\ updated = [p \in Requests |-> NoRecord]
    /\ response = [p \in Requests |-> NoResponse]
    /\ log = [order |-> <<>>]
    /\ StoreInit
    /\ hist = EmptyHist

\* request p runs its pipeline up to the record it is about to save
Race_Extract(p) ==
    /\ pc[p] = "idle"
    /\ \E recipe \in RaceRecords : updated' = [updated EXCEPT ![p] = recipe]
    /\ pc' = [pc EXCEPT ![p] = "save"]
    /\ UNCHANGED <<url, soup, response, log, recipes, nextId, hist>>

\* save_recipe of request p: the one INSERT ... ON CONFLICT statement and its
\* commit, which sqlite runs under the write lock of the database file
Race_Save(p) ==
    /\ pc[p] = "save"
    /\ Commit(updated[p])
    /\ log' = [log EXCEPT !.order = Append(@, p)]
    /\ pc' = [pc EXCEPT ![p] = "done"]
    /\ response' = [response EXCEPT ![p] = Answer("extract", 200, updated[p])]
    /\ UNCHANGED <<url, soup, updated>>

\* save_recipe of request p raises (the database stays locked): printed, not saved
Race_SaveFails(p) ==
    /\ pc[p] = "save"
    /\ pc' = [pc EXCEPT ![p] = "done"]
    /\ response' = [response EXCEPT ![p] = Answer("extract", 200, updated[p])]
    /\ UNCHANGED <<url, soup, updated, log, recipes, nextId, hist>>

RaceNext ==
    \E p \in Requests :
        \/ Race_Extract(p)
        \/ Race_Save(p)
        \/ Race_SaveFails(p)

SpecRace == RaceInit /\ [][RaceNext]_vars

----------------------------------------------------------------------------
(* PATCH /recipes: routes/recipes.update_recipe over db.update_recipe_row   *)

\* the keys of update.dict(exclude_unset=True) that name a column, in field order
\* (source_url, always set, is written over itself)
PatchKeys == <<"title", "author", "prep_time", "cook_time", "total_time", "servings",
               "ingredients", "steps">>

\* an UpdateRecipe: its values and the set of fields the body supplied
UpdateRecipe(source_url, supplied) ==
    [source_url |-> source_url, supplied |-> supplied,
     title |-> Txt_Tart, author |-> <<"A", "n", "n">>, prep_time |-> 30, cook_time |-> 20,
     total_time |-> 50, servings |-> <<"4">>,
     ingredients |-> <<Txt_Egg>>, steps |-> <<Txt_Bake>>]

Updates ==
    { UpdateRecipe(u, supplied) :
        u \in Urls,
        supplied \in { {}, {"title"}, {"ingredients"}, {"steps"}, {"title", "ingredients"},
                       {"prep_time", "steps"}, {"servings", "ingredients", "steps"} } }

\* RecipeResponse(..., steps=json.loads(row steps_json)) and its like for ingredients:
\* the stored value is a list of section dicts, which List[str] rejects unless empty
SectionsAsLines(sections) == IF Len(sections) = 0 THEN Returned(<<>>) ELSE Raised

\* the value written for key "ingredients"; row_dict is the row as selected at the start
PatchedIngredients(row, row_dict, update) ==
    IF SectionsAsLines(row_dict.steps_json).raised THEN Raised
    ELSE Returned([row EXCEPT !.ingredients_json = clean_ingredients(update.ingredients)])

\* the value written for key "steps"
PatchedSteps(row, row_dict, update) ==
    IF SectionsAsLines(row_dict.ingredients_json).raised THEN Raised
    ELSE Returned([row EXCEPT !.steps_json = clean_steps(update.steps)])

\* one turn of the loop: the row after "UPDATE recipes SET key = ?" and commit
PatchedKey(row, row_dict, update, key) ==
    IF key = "ingredients" THEN PatchedIngredients(row, row_dict, update)
    ELSE IF key = "steps" THEN PatchedSteps(row, row_dict, update)
    ELSE Returned([row EXCEPT ![key] = update[key]])

\* "for key, value in changes.items()" from the i-th key on: how the loop ends and
\* the row as committed by then
RECURSIVE PatchLoop(_, _, _, _)
PatchTurn(row, row_dict, update, i, r) ==
    IF r.raised THEN [raised |-> TRUE, row |-> row]
    ELSE PatchLoop(r.val, row_dict, update, i + 1)

PatchLoop(row, row_dict, update, i) ==
    IF i > Len(PatchKeys) THEN [raised |-> FALSE, row |-> row]
    ELSE IF PatchKeys[i] \notin update.supplied THEN PatchLoop(row, row_dict, update, i + 1)
    ELSE PatchTurn(row, row_dict, update, i, PatchedKey(row, row_dict, update, PatchKeys[i]))

\* how the loop left the table that held row_dict for the URL
PatchOutcome(rows, row_dict, ended) ==
    [raised |-> ended.raised, rows |-> (rows \ {row_dict}) \cup {ended.row}]

update_recipe_row(rows, row_dict, update) ==
    PatchOutcome(rows, row_dict, PatchLoop(row_dict, row_dict, update, 1))

\* records behind the rows to patch: with and without ingredients, with and without steps
PatchRecords ==
    { RecipeResponse(Txt_Pie, <<>>, <<"u">>, 0, 0, 0, <<>>, ings, steps, NoImage) :
        ings \in {<<>>, <<Txt_Flour>>}, steps \in {<<>>, <<Txt_Mix>>} }

PatchInit ==
    /\ PipeInit
    /\ StoreInit
    /\ hist = EmptyHist

\* save_recipe(recipe) commits
Patch_Save ==
    /\ \E recipe \in PatchRecords :
          /\ Commit(recipe)
          /\ response' = Answer("save_recipe", 200, recipe)
    /\ log' = [EmptyLog EXCEPT !.rowsBefore = recipes]
    /\ UNCHANGED <<pc, url, soup, updated>>

\* PATCH with no row for source_url: update_recipe_row returns False, 404
Patch_NotFound(update) ==
    /\ RowCount(recipes, update.source_url) = 0
    /\ response' = Answer("update_recipe", 404, update)
    /\ UNCHANGED recipes

\* PATCH with a row: the loop runs; what it raises leaves the route as a 500
Patch_Found(update, r) ==
    /\ RowCount(recipes, update.source_url) > 0
    /\ recipes' = r.rows
    /\ response' = Answer("update_recipe", IF r.raised THEN 500 ELSE 200, update)

Patch_Update ==
    /\ \E update \in Updates :
          \/ Patch_NotFound(update)
          \/ \E row \in recipes :
                /\ row.source_url = update.source_url
                /\ Patch_Found(update, update_recipe_row(recipes, row, update))
    /\ log' = [EmptyLog EXCEPT !.rowsBefore = recipes]
    /\ UNCHANGED <<pc, url, soup, updated, nextId, hist>>

PatchNext ==
    \/ Patch_Save
    \/ Patch_Update
    \/ Store_Upload

SpecPatch == PatchInit /\ [][PatchNext]_vars

----------------------------------------------------------------------------
(* ai_refine_missing_fields on its own, from any base record                *)

Txt_Bob == <<"B", "o", "b">>

\* base records: every field empty or not, the title also blank
BaseRecords ==
    { RecipeResponse(title, author, <<"u">>, t[1], t[2], t[3], servings, ings, steps, NoImage) :
        title \in {<<>>, <<" ">>, Txt_Tart},
        author \in {<<>>, Txt_Bob},
        t \in {<<0, 0, 0>>, <<10, 0, 0>>, <<10, 20, 30>>},
        servings \in {<<>>, <<"2">>},
        ings \in {<<>>, <<Txt_Flour>>},
        steps \in {<<>>, <<Txt_Mix>>} }

\* refined = ai_refine_missing_fields(text, url, recipe): log.modelRec keeps the base
RefineInit ==
    /\ pc = "refine_steps"
    /\ url = <<"u">>
    /\ soup = NoSoup
    /\ updated \in BaseRecords
    /\ response = NoResponse
    /\ log = [EmptyLog EXCEPT !.model = "returned", !.modelRec = updated]
    /\ StoreInit
    /\ hist = EmptyHist

RefineNext ==
    \/ Refine_Steps
    \/ Refine_Ingredients
    \/ Refine_Times
    \/ Refine_Meta
    \/ Extract_Refined

SpecRefine == RefineInit /\ [][RefineNext]_vars

----------------------------------------------------------------------------
(* The text utilities called on their own: `updated` holds the call (the     *)
(* function and its argument), `response` what the call gave                 *)

\* an amount as written and the fraction num/den it stands for
Amount(text, num, den) == [text |-> text, num |-> num, den |-> den]

DurationAmounts ==
    { Amount(<<"4", "5">>, 45, 1), Amount(<<"2">>, 2, 1), Amount(<<"9", "0">>, 90, 1),
      Amount(<<"1", " ", "1", "/", "2">>, 3, 2), Amount(<<"1", " ", "3", "/", "4">>, 7, 4),
      Amount(<<"3", "/", "4">>, 3, 4), Amount(<<"1", "/", "2">>, 1, 2),
      Amount(<<"0", ".", "5">>, 1, 2), Amount(<<"1", ".", "5">>, 3, 2),
      Amount(<<"0", ".", "2", "5">>, 1, 4) }

\* a unit as written and whether it is of the hour family
Unit(text, hours) == [text |-> text, hours |-> hours]

DurationUnits ==
    { Unit(<<"h", "o", "u", "r">>, TRUE), Unit(<<"h", "o", "u", "r", "s">>, TRUE),
      Unit(<<"h", "r">>, TRUE), Unit(<<"h">>, TRUE),
      Unit(<<"m", "i", "n", "u", "t", "e", "s">>, FALSE), Unit(<<"m", "i", "n">>, FALSE),
      Unit(<<"m", "i", "n", "s">>, FALSE), Unit(<<"m">>, FALSE) }

\* one <amount><unit> occurrence, with or without a space between the two
Occurrence(a, sep, u) == [text |-> a.text \o sep \o u.text, amount |-> a, unit |-> u]

Occurrences == {Occurrence(a, sep, u) : a \in DurationAmounts, sep \in {<<>>, <<" ">>}, u \in DurationUnits}

\* a call of time_to_minutes on the occurrences `parts`, written one after the other
DurationCall(text, parts) == [fn |-> "time_to_minutes", arg |-> text, parts |-> parts]

DurationCalls ==
    {DurationCall(<<>>, <<>>)}
    \cup {DurationCall(o.text, <<o>>) : o \in Occurrences}
    \cup {DurationCall(o1.text \o <<" ">> \o o2.text, <<o1, o2>>) :
            o1 \in {o \in Occurrences : o.unit.text = <<"h", "o", "u", "r">> /\ o.amount.den = 1},
            o2 \in {o \in Occurrences : o.unit.text = <<"m", "i", "n">> /\ o.amount.den # 4}}

\* pieces of text clean_text is called on: references, what is left of a reference
\* once its "&" is decoded from "&amp;", white space, a letter, a lone "&"
TextTokens ==
    { <<"&", "a", "m", "p", ";">>, <<"&", "l", "t", ";">>, <<"&", "n", "b", "s", "p", ";">>,
      <<"l", "t", ";">>, <<"a", "m", "p", ";">>, <<" ">>, <<"\t">>, <<"x">>, <<"&">> }

MaxTokens == 3

RECURSIVE Joined(_)
Joined(ts) == IF Len(ts) = 0 THEN <<>> ELSE Head(ts) \o Joined(Tail(ts))

Texts == {Joined(ts) : ts \in UNION {[1..n -> TextTokens] : n \in 0..MaxTokens}}

CleanTextCalls == {[fn |-> "clean_text", arg |-> t, parts |-> <<>>] : t \in Texts}

\* ingredient lines: a quantity in one of the supported forms, a unit, a name, and
\* possibly a parenthetical at the end
LineQuantities ==
    { <<"2">>, <<"1", "2">>, <<"1", " ", "1", "/", "2">>, <<"3", "/", "4">>,
      <<"1", ".", "5">>, <<".", "5">>, <<ThreeQuarters>>, <<"U+00BD">> }

LineUnits == {<<"c", "u", "p">>, <<"c", "u", "p", "s">>, <<"g">>}

LineNames == {<<"s", "u", "g", "a", "r">>, <<"f", "l", "o", "u", "r">>}

LineEnds == {<<>>, <<" ", "(", "p", "a", "c", "k", "e", "d", ")">>}

ParseCall(quantity, unit, name, end) == [fn |-> "parse_ingredient_line", arg |-> quantity \o <<" ">> \o unit \o <<" ">> \o name \o end, parts |-> <<IngredientItem(name, quantity, unit)>>]

ParseCalls ==
    {ParseCall(q, u, n, e) : q \in LineQuantities, u \in LineUnits, n \in LineNames, e \in LineEnds}

\* the lists of at most n lines taken from `lines`
Lists(lines, n) == UNION {[1..k -> lines] : k \in 0..n}

MaxLines == 6

\* raw ingredient lines: blank, two headers, a line with blanks around it, a line
IngredientLines == {<<>>, <<"A", ":">>, <<"B", ":">>, <<" ", "x", " ">>, <<"y">>}

IngredientsCalls ==
    {[fn |-> "clean_ingredients", arg |-> raw, parts |-> <<>>] : raw \in Lists(IngredientLines, MaxLines)}

\* raw step lines for the sections: two headers, a step, a line that normalizes to ""
SectionLines == {<<"A", ":">>, <<"B", ":">>, <<"x">>, <<"-">>}

MaxSteps == 2

Txt_MixFlour == <<"M", "i", "x", " ", "f", "l", "o", "u", "r", ".">>

\* raw step lines for the normalization: generic labels, prefixes of each kind alone
\* and one after the other, a label that is a header, a blank line
StepLines ==
    { <<"S", "t", "e", "p", "s">>,
      <<"I", "n", "s", "t", "r", "u", "c", "t", "i", "o", "n", "s">>,
      <<"m", "e", "t", "h", "o", "d">>,
      <<"D", "i", "r", "e", "c", "t", "i", "o", "n", "s">>,
      <<"1", ".", " ">> \o Txt_MixFlour,
      <<"2", ".", " ">> \o Txt_Bake,
      <<Bullet, " ">> \o Txt_Bake,
      <<"S", "t", "e", "p", " ", "3", ":", " ">> \o Txt_Bake,
      <<"-", " ", "1", ".", " ">> \o Txt_Bake,
      <<"1", ")", " ", "S", "t", "e", "p", " ", "2", ":", " ">> \o Txt_Bake,
      <<"-", " ", "-", " ">> \o Txt_Bake,
      <<"S", "t", "e", "p", " ", "1", ":">>,
      <<"S", "t", "e", "p", "s", ":">>,
      <<" ">>,
      Txt_Bake }

MaxRepeats == 4

Txt_DoX == <<"D", "o", " ", "X">>

\* raw step lines for the repeated steps: a step, the same step behind a bullet,
\* another step, a label that normalizes to "", a header, a blank line
RepeatLines ==
    { Txt_DoX, <<"-", " ">> \o Txt_DoX, Txt_Bake, <<"S", "t", "e", "p", " ", "1", ":">>,
      <<"A", ":">>, <<" ">> }

MaxLabels == 3

\* raw step lines for the labels: generic labels followed by a colon, one of them with
\* a blank before the colon, a step, a header
LabelLines ==
    { <<"I", "n", "s", "t", "r", "u", "c", "t", "i", "o", "n", "s", ":">>,
      <<"S", "t", "e", "p", "s", ":">>,
      <<"m", "e", "t", "h", "o", "d", " ", ":">>,
      Txt_Bake,
      <<"A", ":">> }

StepsCalls ==
    {[fn |-> "clean_steps", arg |-> raw, parts |-> <<>>] : raw \in Lists(SectionLines, MaxLines) \cup Lists(StepLines, MaxSteps) \cup Lists(RepeatLines, MaxRepeats) \cup Lists(LabelLines, MaxLabels)}

CallInit ==
    /\ pc = "call"
    /\ \/ updated \in DurationCalls
       \/ updated \in CleanTextCalls
       \/ updated \in ParseCalls
       \/ updated \in IngredientsCalls
       \/ updated \in StepsCalls
    /\ url = <<>>
    /\ soup = NoSoup
    /\ response = NoResponse
    /\ log = EmptyLog
    /\ StoreInit
    /\ hist = EmptyHist

\* the call ended with r: a value, or an exception
Ended(fn, r) ==
    /\ pc' = "returned"
    /\ response' = Answer(fn, IF r.raised THEN 500 ELSE 200, r.val)
    /\ UNCHANGED <<url, soup, updated, log, recipes, nextId, hist>>

Call_time_to_minutes ==
    /\ pc = "call"
    /\ updated.fn = "time_to_minutes"
    /\ Ended("time_to_minutes", time_to_minutes(updated.arg))

Call_clean_text ==
    /\ pc = "call"
    /\ updated.fn = "clean_text"
    /\ Ended("clean_text", Returned(clean_text(updated.arg)))

Call_parse_ingredient_line ==
    /\ pc = "call"
    /\ updated.fn = "parse_ingredient_line"
    /\ Ended("parse_ingredient_line", Returned(parse_ingredient_line(updated.arg)))

Call_clean_ingredients ==
    /\ pc = "call"
    /\ updated.fn = "clean_ingredients"
    /\ Ended("clean_ingredients", Returned(clean_ingredients(updated.arg)))

Call_clean_steps ==
    /\ pc = "call"
    /\ updated.fn = "clean_steps"
    /\ Ended("clean_steps", Returned(clean_steps(updated.arg)))

CallNext ==
    \/ Call_time_to_minutes
    \/ Call_clean_text
    \/ Call_parse_ingredient_line
    \/ Call_clean_ingredients
    \/ Call_clean_steps

SpecCalls == CallInit /\ [][CallNext]_vars

----------------------------------------------------------------------------
(* Properties of the extract pipeline                                       *)

\* ai_refine_missing_fields has been entered
RefinerRan ==
    \/ pc \in {"refine_steps", "refine_ingredients", "refine_times", "refine_meta", "refined"}
    \/ log.refine # "none"

\* heuristic_extract has been reached
HeuristicRan == pc = "heuristic" \/ log.heuristic # "none"

\* the validity rule as the specification words it
NonBlank(str) == \E i \in DOMAIN str : ~IsSpace(str[i])

ValidRule(r) == NonBlank(r.title) \/ (r.ingredients # <<>> /\ r.steps # <<>>)

\* the table holds, under the record's URL, the record in sectioned form
Stored(r) ==
    \E row \in recipes :
        /\ row.source_url = r.source_url
        /\ RecipeForUI(row) = convert_to_ui_recipe(r)

\* the request ended by saving (or trying to save) and returning r at save point sp
SavedAndReturned(r, sp) ==
    /\ log.savePoint = sp
    /\ log.calls.save = 1
    /\ response = Answer("extract", 200, r)
    /\ log.save = "ok" => Stored(r)

\* C1: a valid model record is saved and returned with neither the refiner nor the
\* heuristic extractor run; the refiner runs only after an invalid model record; the
\* heuristic extractor runs only after ai_extract raised, the refiner raised, or the
\* refined record was invalid.
C1_StageOrder ==
    /\ (log.model = "returned" /\ ValidRule(log.modelRec))
          => /\ ~RefinerRan
             /\ ~HeuristicRan
             /\ pc \in {"save", "done"}
             /\ pc = "done" => SavedAndReturned(log.modelRec, "model")
    /\ RefinerRan => (log.model = "returned" /\ ~ValidRule(log.modelRec))
    /\ HeuristicRan =>
          \/ log.model \in {"call_raised", "raised"}
          \/ log.refine = "raised"
          \/ (log.refine = "returned" /\ ~ValidRule(log.refinedRec))

C1_Witness ==
    /\ pc = "done"
    /\ log.model = "returned"
    /\ ValidRule(log.modelRec)
    /\ log.save = "ok"
    /\ Stored(log.modelRec)

\* C2: when ai_extract raises, the refiner is not run and the request ends by saving
\* and returning the heuristic extractor's record, valid or not.
C2_ModelRaises ==
    log.model \in {"call_raised", "raised"}
        => /\ ~RefinerRan
           /\ pc = "done" => /\ log.heuristic = "returned"
                             /\ SavedAndReturned(log.heurRec, "heuristic")

\* C3: _is_valid_recipe is the rule "non-blank title, or ingredients and steps both
\* non-empty", and that rule decides both the gate on the model record and the gate
\* on the refined record.
C3_ValidityRule ==
    /\ _is_valid_recipe(updated) <=> ValidRule(updated)
    /\ log.modelGate = "valid" <=> (log.model = "returned" /\ ValidRule(log.modelRec))
    /\ log.modelGate = "invalid" <=> (log.model = "returned" /\ ~ValidRule(log.modelRec))
    /\ log.refinedGate = "valid" <=> (log.refine = "returned" /\ ValidRule(log.refinedRec))
    /\ log.refinedGate = "invalid" <=> (log.refine = "returned" /\ ~ValidRule(log.refinedRec))

\* a record with a blank title, no ingredients and a step was gated as invalid
C3_Witness ==
    /\ log.modelGate = "invalid"
    /\ log.modelRec.title = <<" ">>
    /\ log.modelRec.ingredients = <<>>
    /\ log.modelRec.steps # <<>>
    /\ log.refinedGate = "valid"

\* C4: a failed page fetch ends the request with 502, with no model call, no
\* refinement, no heuristic extraction and no write: the table is as it was.
C4_FetchFails ==
    log.fetch = "failed"
        => /\ pc = "done"
           /\ response = Answer("extract", 502, NoRecord)
           /\ log.calls = [NoCalls EXCEPT !.fetch = 1]
           /\ ~RefinerRan
           /\ ~HeuristicRan
           /\ recipes = log.rowsBefore

C4_Witness == log.fetch = "failed" /\ pc = "done" /\ recipes # {}

\* C5: a request whose fetch succeeded ends with a normal response carrying a record.
C5_AlwaysARecord == (pc = "done" /\ log.fetch = "ok") => response.status = 200

\* the record the request returns from its save point
RecordAt(sp) ==
    IF sp = "model" THEN log.modelRec
    ELSE IF sp = "refined" THEN log.refinedRec
    ELSE log.heurRec

\* C6: a failed write at any save point leaves the response what a successful write
\* gives, the record of that save point, and runs no further stage.
C6_SaveFails ==
    log.save # "none"
        => /\ pc = "done"
           /\ response = Answer("extract", 200, RecordAt(log.savePoint))
           /\ log.calls.save = 1
           /\ log.savePoint = "model" => (~RefinerRan /\ ~HeuristicRan)
           /\ log.savePoint = "refined" => ~HeuristicRan
           /\ log.save = "failed" => recipes = log.rowsBefore

C6_Witness ==
    /\ log.save = "failed"
    /\ log.savePoint = "refined"
    /\ pc = "done"
    /\ response.body = log.refinedRec

\* the record _normalize_ai_recipe_dict makes of an empty object
AllDefaults(u) == RecipeResponse(<<>>, <<>>, u, 0, 0, 0, <<>>, <<>>, <<>>, NoImage)

\* C7: a body that is no JSON, or JSON of the wrong shape, makes ai_extract return the
\* all-defaults record without raising, so the refiner runs next.
C7_MalformedIsEmpty ==
    log.content \in {"notjson", "wrongshape"}
        => /\ log.model = "returned"
           /\ log.modelRec = AllDefaults(url)
           /\ log.modelGate = "invalid"

----------------------------------------------------------------------------
(* Properties of the store                                                  *)

KeysOfRows == {r.source_url : r \in recipes}

RowOf(key) == CHOOSE r \in recipes : r.source_url = key

GhostOf(key) == CHOOSE g \in hist.rows : g.key = key

\* the extraction-written columns of a row
Written(row) ==
    [title |-> row.title, author |-> row.author,
     prep_time |-> row.prep_time, cook_time |-> row.cook_time,
     total_time |-> row.total_time, servings |-> row.servings,
     ingredients |-> row.ingredients_json, steps |-> row.steps_json]

\* the same columns as save_recipe writes them for a record
WrittenFor(recipe) ==
    [title |-> recipe.title, author |-> recipe.author,
     prep_time |-> recipe.prep_time, cook_time |-> recipe.cook_time,
     total_time |-> recipe.total_time, servings |-> recipe.servings,
     ingredients |-> clean_ingredients(recipe.ingredients),
     steps |-> clean_steps(recipe.steps)]

\* C8: after any saves and deletes the table has at most one row per source_url, and
\* the row carries the values of the latest save_recipe for that key.
C8_OneRowLatestValues ==
    /\ \A r1, r2 \in recipes : r1.source_url = r2.source_url => r1 = r2
    /\ KeysOfRows = {g.key : g \in hist.rows}
    /\ \A r \in recipes : Written(r) = WrittenFor(GhostOf(r.source_url).last)

\* a key saved twice with different ingredients has one row, with the second values
C8_Witness ==
    /\ response.handler = "save_recipe"
    /\ \E g \in hist.rows :
          /\ g.saves = 2
          /\ g.changed
          /\ g.key = RowKey(response.body, 0)
          /\ RowCount(recipes, g.key) = 1
          /\ RowOf(g.key).ingredients_json = clean_ingredients(response.body.ingredients)

\* C9: image_url of a row is what the last upload that found the row set, NULL
\* if there was none; a save of an existing key leaves it as it is.
C9_ImageOnlyByUpload ==
    \A r \in recipes : r.image_url = GhostOf(r.source_url).upload

\* a row that got an image and was saved again afterwards keeps the image
C9_Witness ==
    /\ response.handler = "save_recipe"
    /\ \E r \in recipes :
          /\ r.source_url = RowKey(response.body, 0)
          /\ r.image_url # NullImage
          /\ r.image_url = GhostOf(r.source_url).upload
          /\ GhostOf(r.source_url).saves = 2

KeysOfList(list) == [i \in DOMAIN list |-> list[i].source_url]

\* C10, as claimed: GET /recipes lists the records by their latest save, latest first.
C10_ByUpsert ==
    response.handler = "list_recipes" => KeysOfList(response.body) = hist.upserted

\* C10, as the code has it: GET /recipes lists the records by the creation of
\* their rows, latest first; saving an existing key again does not move it.
C10_ByCreation ==
    response.handler = "list_recipes" => KeysOfList(response.body) = hist.created

\* a listing of two records, the older of which was saved again after the newer
C10_Witness ==
    /\ response.handler = "list_recipes"
    /\ Len(response.body) >= 2
    /\ hist.created # hist.upserted
    /\ KeysOfList(response.body) = hist.created

----------------------------------------------------------------------------
(* Properties of concurrent requests                                        *)

RowsOfUrl(u) == {r \in recipes : r.source_url = u}

BothDone == \A p \in Requests : pc[p] = "done"

LastCommitted == log.order[Len(log.order)]

\* C11: two extract requests for one URL, in any interleaving, leave one row for the
\* URL, whose extraction-written columns are all those of the record of the request
\* that committed last.
C11_LastUpsertWins ==
    /\ Cardinality(RowsOfUrl(RaceUrl)) <= 1
    /\ (BothDone /\ log.order # <<>>)
          => /\ Cardinality(RowsOfUrl(RaceUrl)) = 1
             /\ \A r \in RowsOfUrl(RaceUrl) : Written(r) = WrittenFor(updated[LastCommitted])

\* both requests committed, the first to start being the last to commit, with
\* records that differ
C11_Witness ==
    /\ BothDone
    /\ log.order = <<2, 1>>
    /\ updated[1].title # updated[2].title
    /\ updated[1].ingredients # updated[2].ingredients
    /\ \A r \in recipes : Written(r) = WrittenFor(updated[1])

----------------------------------------------------------------------------
(* Properties of PATCH /recipes                                             *)

RowBefore(u) == CHOOSE r \in log.rowsBefore : r.source_url = u

\* the column a key of the body is written to
ColumnOf(key) ==
    IF key = "ingredients" THEN "ingredients_json"
    ELSE IF key = "steps" THEN "steps_json" ELSE key

\* what PATCH is to store for a supplied key
SuppliedValue(update, key) ==
    IF key = "ingredients" THEN clean_ingredients(update.ingredients)
    ELSE IF key = "steps" THEN clean_steps(update.steps) ELSE update[key]

\* the row the PATCH is to leave: supplied fields replaced, all else as before
PatchedAsAsked(before, update) ==
    [c \in DOMAIN before |->
        IF \E key \in update.supplied : ColumnOf(key) = c
        THEN SuppliedValue(update, CHOOSE key \in update.supplied : ColumnOf(key) = c)
        ELSE before[c]]

HadRow(u) == \E r \in log.rowsBefore : r.source_url = u

\* C12: PATCH for a URL with a row answers 200 and changes exactly the supplied
\* fields, whatever sections the row holds; PATCH for a URL without a row answers
\* 404 and changes nothing.
C12_PatchExactly ==
    response.handler = "update_recipe"
        => IF HadRow(response.body.source_url)
           THEN /\ response.status = 200
                /\ recipes = (log.rowsBefore \ {RowBefore(response.body.source_url)})
                               \cup {PatchedAsAsked(RowBefore(response.body.source_url), response.body)}
           ELSE /\ response.status = 404
                /\ recipes = log.rowsBefore

----------------------------------------------------------------------------
(* Properties of the refiner                                                *)

\* every field of base that is not empty has the same value in out
KeptNonEmpty(base, out) ==
    /\ NonBlank(base.title) => out.title = base.title
    /\ NonBlank(base.author) => out.author = base.author
    /\ NonBlank(base.servings) => out.servings = base.servings
    /\ base.ingredients # <<>> => out.ingredients = base.ingredients
    /\ base.steps # <<>> => out.steps = base.steps
    /\ base.prep_time # 0 => out.prep_time = base.prep_time
    /\ base.cook_time # 0 => out.cook_time = base.cook_time
    /\ base.total_time # 0 => out.total_time = base.total_time

\* C13: whatever the base record and whatever the calls answer, the fields that were
\* not empty in the base keep their value, after every pass and in the record
\* ai_refine_missing_fields returns.
C13_NonEmptyKept ==
    /\ KeptNonEmpty(log.modelRec, updated)
    /\ log.refine = "returned" => KeptNonEmpty(log.modelRec, log.refinedRec)

\* the refiner returned, having filled steps, author and times around a title, a
\* list of ingredients and a prep time that the base had
C13_Witness ==
    /\ log.refine = "returned"
    /\ log.modelRec.title = Txt_Tart
    /\ log.modelRec.ingredients = <<Txt_Flour>>
    /\ log.modelRec.prep_time = 10
    /\ log.modelRec.steps = <<>>
    /\ log.refinedRec.steps = <<Txt_Bake>>
    /\ log.refinedRec.author # <<>>
    /\ log.refinedRec.prep_time = 10
    /\ log.calls.steps = 1 /\ log.calls.times = 1 /\ log.calls.meta = 1
    /\ log.refinedRec.title = Txt_Tart

----------------------------------------------------------------------------
(* Properties of the text utilities                                         *)

ReturnedFrom(fn) == pc = "returned" /\ updated.fn = fn

\* the minutes of one occurrence: its amount, times 60 for an hour unit, floored
OccurrenceMinutes(o) ==
    IF o.unit.hours THEN (o.amount.num * 60) \div o.amount.den
    ELSE o.amount.num \div o.amount.den

RECURSIVE TotalMinutes(_)
TotalMinutes(parts) ==
    IF parts = <<>> THEN 0 ELSE OccurrenceMinutes(Head(parts)) + TotalMinutes(Tail(parts))

\* C14: time_to_minutes of a text made of <amount><unit> occurrences, the amount an
\* integer, a decimal, a mixed number or a pure fraction, is the sum of their minutes
\* ("3/4 hour" is 45, "1 1/2 hours" 90, "45 min" 45, "0.5 hour" 30, "" 0).
C14_SumOfOccurrences ==
    ReturnedFrom("time_to_minutes")
        => response = Answer("time_to_minutes", 200, TotalMinutes(updated.parts))

\* C15: clean_text is idempotent: clean_text(clean_text(s)) = clean_text(s) for
\* every string s, entities whose decoded form reads as an entity and runs of white
\* space included.
C15_Idempotent ==
    ReturnedFrom("clean_text") => clean_text(response.body) = response.body

\* C16: for a line that begins with a quantity in a supported form (integer, mixed
\* number, bare fraction, decimal, one vulgar-fraction glyph), parse_ingredient_line
\* returns that whole token as quantity, the following token of 1 to 6 letters as
\* unit and the remainder, a parenthetical at the end aside, as name.
C16_QuantityUnitName ==
    ReturnedFrom("parse_ingredient_line") => response.body = updated.parts[1]

Names(sections) == [i \in DOMAIN sections |-> sections[i].section]

Stripped(raw) == [i \in DOMAIN raw |-> Strip(raw[i])]

NonBlankLine(line) == Len(line) > 0

\* a is b with some of its elements left out
RECURSIVE IsSubseq(_, _)
IsSubseq(a, b) ==
    IF Len(a) = 0 THEN TRUE
    ELSE IF Len(b) = 0 THEN FALSE
    ELSE IF Head(a) = Head(b) THEN IsSubseq(Tail(a), Tail(b))
    ELSE IsSubseq(a, Tail(b))

\* the names of the header lines of raw ingredients, in the order of the lines
IngredientsHeaders(raw) ==
    LET h == SelectSeq(Stripped(raw), EndsWithColon)
    IN  [i \in DOMAIN h |-> SubSeq(h[i], 1, Len(h[i]) - 1)]

IsStepsHeader(line) == Len(StepsHeader(line)) > 0

\* the names of the header lines of raw steps, in the order of the lines
StepsHeaders(raw) ==
    LET h == SelectSeq(Stripped(raw), IsStepsHeader)
    IN  [i \in DOMAIN h |-> StepsHeader(h[i])]

\* the lines of raw before its first header line
RECURSIVE Preceding(_, _)
Preceding(lines, headers) ==
    IF Len(lines) = 0 \/ Head(lines) \in headers THEN <<>>
    ELSE <<Head(lines)>> \o Preceding(Tail(lines), headers)

IngredientsPreceding(raw) ==
    SelectSeq(Preceding(Stripped(raw), {l \in Range(Stripped(raw)) : EndsWithColon(l)}), NonBlankLine)

\* the steps the lines before the first header leave: normalized, not empty, no label
StepsPreceding(raw) ==
    {n \in {normalize_step_text(l) : l \in Range(Preceding(Stripped(raw), {l \in Range(Stripped(raw)) : IsStepsHeader(l)}))} :
        Len(n) > 0 /\ Lower(n) \notin generic_labels}

\* where a name first appears in `order`
FirstAt(name, order) == CHOOSE i \in DOMAIN order : order[i] = name /\ \A j \in 1..(i - 1) : order[j] # name

\* no section stands before one whose name appears earlier in `order`
ByFirstAppearance(names, order) ==
    /\ Range(names) \subseteq Range(order)
    /\ \A i, j \in DOMAIN names : i < j => FirstAt(names[i], order) <= FirstAt(names[j], order)

EverySectionHasItems(sections) == \A i \in DOMAIN sections : Len(sections[i].items) >= 1

IngredientsUnderMain(sections, raw) ==
    Len(IngredientsPreceding(raw)) > 0
        => Len(sections) > 0 /\ sections[1] = Section(MainName, IngredientsPreceding(raw))

StepsUnderSteps(sections, raw) ==
    StepsPreceding(raw) # {}
        => /\ Len(sections) > 0
           /\ sections[1].section = StepsName
           /\ Range(sections[1].items) = StepsPreceding(raw)

\* C17 as stated: every section returned by clean_ingredients and by clean_steps has
\* at least one item, sections stand in the order in which their headers first appear
\* in the raw input, and lines before any header are under "Main" or "Steps".
C17_FirstAppearance ==
    /\ ReturnedFrom("clean_ingredients")
        => /\ EverySectionHasItems(response.body)
           /\ ByFirstAppearance(Names(response.body), <<MainName>> \o IngredientsHeaders(updated.arg))
           /\ IngredientsUnderMain(response.body, updated.arg)
    /\ ReturnedFrom("clean_steps")
        => /\ EverySectionHasItems(response.body)
           /\ ByFirstAppearance(Names(response.body), <<StepsName>> \o StepsHeaders(updated.arg))
           /\ StepsUnderSteps(response.body, updated.arg)

\* C17, amended: every section returned by clean_ingredients and by clean_steps has at
\* least one item, sections stand in the order of the header lines that open them (a
\* header that comes again opens a further section of the same name), and lines
\* before any header are under "Main" or "Steps".
C17_InputOrder ==
    /\ ReturnedFrom("clean_ingredients")
        => /\ EverySectionHasItems(response.body)
           /\ IsSubseq(Names(response.body), <<MainName>> \o IngredientsHeaders(updated.arg))
           /\ IngredientsUnderMain(response.body, updated.arg)
    /\ ReturnedFrom("clean_steps")
        => /\ EverySectionHasItems(response.body)
           /\ IsSubseq(Names(response.body), <<StepsName>> \o StepsHeaders(updated.arg))
           /\ StepsUnderSteps(response.body, updated.arg)

\* clean_ingredients has returned a "Main" section for the line before any header
\* and one section for each of the two "A:" lines
C17_Witness ==
    /\ ReturnedFrom("clean_ingredients")
    /\ updated.arg = << <<" ", "x", " ">>, <<"A", ":">>, <<"y">>, <<"A", ":">>, <<"y">> >>
    /\ response.body = << Section(MainName, << <<"x">> >>), Section(<<"A">>, << <<"y">> >>), Section(<<"A">>, << <<"y">> >>) >>

\* line i of raw ingredients is a header; 0 stands for the start of the list
IsHeaderAt(raw, i) == i = 0 \/ EndsWithColon(Strip(raw[i]))

\* the name of the section that opens at i
NameAt(raw, i) == IF i = 0 THEN MainName ELSE SubSeq(Strip(raw[i]), 1, Len(Strip(raw[i])) - 1)

\* the next header line after i, Len(raw)+1 if none
RECURSIVE NextHeader(_, _)
NextHeader(raw, i) ==
    IF i + 1 > Len(raw) \/ IsHeaderAt(raw, i + 1) THEN i + 1 ELSE NextHeader(raw, i + 1)

IsItem(line) == Len(line) > 0 /\ ~EndsWithColon(line)

\* the non-blank lines between the header at i and the next header, stripped
ItemsAfter(raw, i) == SelectSeq(SubSeq(Stripped(raw), i + 1, NextHeader(raw, i) - 1), NonBlankLine)

\* the places, 0 and the header lines, that have an item before the next header
OpeningPlaces(raw) ==
    SelectSeq([k \in 1..(Len(raw) + 1) |-> k - 1],
              LAMBDA i : IsHeaderAt(raw, i) /\ Len(ItemsAfter(raw, i)) > 0)

\* one section for every such place, named by the header, with the lines up to the
\* next header
SectionsByHeader(raw) ==
    [k \in DOMAIN OpeningPlaces(raw) |->
        Section(NameAt(raw, OpeningPlaces(raw)[k]), ItemsAfter(raw, OpeningPlaces(raw)[k]))]

RECURSIVE AllItems(_)
AllItems(sections) ==
    IF Len(sections) = 0 THEN <<>> ELSE Head(sections).items \o AllItems(Tail(sections))

NoHeader(raw) == \A i \in DOMAIN raw : ~EndsWithColon(Strip(raw[i]))

\* what C18 says of sections and items: the headers are the stripped lines ending in
\* ":", a header without a following item yields no section, and the items put end
\* to end are the non-blank, non-header stripped lines in their order
HeadersAndItems(sections, raw) ==
    /\ sections = SectionsByHeader(raw)
    /\ AllItems(sections) = SelectSeq(Stripped(raw), IsItem)

\* C18 as stated: clean_ingredients treats exactly the stripped lines ending in ":"
\* as headers, skips blank lines and appends every other line stripped, without
\* deduplication; a header with no following item yields no section, and an input
\* without any header yields a single "Main" section.
C18_AlwaysMain ==
    ReturnedFrom("clean_ingredients")
        => /\ HeadersAndItems(response.body, updated.arg)
           /\ NoHeader(updated.arg)
                => response.body = << Section(MainName, SelectSeq(Stripped(updated.arg), IsItem)) >>

\* C18, amended: the same, but an input without any header yields a single "Main"
\* section if it has a non-blank line, and no section otherwise.
C18_MainIfItems ==
    ReturnedFrom("clean_ingredients")
        => /\ HeadersAndItems(response.body, updated.arg)
           /\ NoHeader(updated.arg)
                => response.body =
                     IF \E i \in DOMAIN updated.arg : Len(Strip(updated.arg[i])) > 0
                     THEN << Section(MainName, SelectSeq(Stripped(updated.arg), IsItem)) >>
                     ELSE <<>>

\* clean_ingredients has returned for a list with a blank line, the same line twice,
\* a header without items and a line with blanks around it
C18_Witness ==
    /\ ReturnedFrom("clean_ingredients")
    /\ updated.arg = << <<"y">>, <<>>, <<"y">>, <<"A", ":">>, <<"B", ":">>, <<" ", "x", " ">> >>
    /\ response.body = << Section(MainName, << <<"y">>, <<"y">> >>), Section(<<"B">>, << <<"x">> >>) >>

\* C19: if every line of the raw steps is, whatever its case, one of the generic
\* labels, clean_steps returns zero sections.
C19_OnlyLabels ==
    ReturnedFrom("clean_steps") /\ (\A i \in DOMAIN updated.arg : Lower(updated.arg[i]) \in generic_labels)
        => response.body = <<>>

\* the stripped line without its first prefix: a bullet, else a number, else a "Step
\* n:" label, the first of the three patterns that matches applied once
OnePrefix(t) ==
    IF StripBullet(t) # t THEN StripBullet(t)
    ELSE IF StripNumber(t) # t THEN StripNumber(t)
    ELSE StripStepLabel(t)

OnePrefixEach(raw) == [i \in DOMAIN raw |-> Strip(OnePrefix(Strip(raw[i])))]

\* every line is a step that is kept: not blank, not ending in ":", and what is left
\* of it is not empty, not a generic label and not the step before it
AllKept(raw, steps) ==
    /\ Len(raw) > 0
    /\ \A i \in DOMAIN raw :
          /\ Len(Strip(raw[i])) > 0
          /\ ~EndsWithColon(Strip(raw[i]))
          /\ Len(steps[i]) > 0
          /\ Lower(steps[i]) \notin generic_labels
          /\ i > 1 => steps[i] # steps[i - 1]

\* C20: clean_steps removes from each non-header line at most one leading prefix, a
\* bullet or a number or a "Step n:" label, applying at most one of the three
\* patterns once; the text after the first removed prefix is stored unchanged.
C20_AtMostOnePrefix ==
    ReturnedFrom("clean_steps") /\ AllKept(updated.arg, OnePrefixEach(updated.arg))
        => response.body = << Section(StepsName, OnePrefixEach(updated.arg)) >>

\* line i of raw steps opens a section; 0 stands for the start of the list
IsStepsHeaderAt(raw, i) == i = 0 \/ IsStepsHeader(Strip(raw[i]))

\* the next line after i that opens a section, Len(raw)+1 if none
RECURSIVE NextStepsHeader(_, _)
NextStepsHeader(raw, i) ==
    IF i + 1 > Len(raw) \/ IsStepsHeaderAt(raw, i + 1) THEN i + 1 ELSE NextStepsHeader(raw, i + 1)

IsStep(norm) == Len(norm) > 0 /\ Lower(norm) \notin generic_labels

\* the lines between the header at i and the next header, normalized, those that
\* normalize to nothing or to a generic label left out
StepsAfter(raw, i) ==
    SelectSeq([k \in 1..(NextStepsHeader(raw, i) - 1 - i) |-> normalize_step_text(raw[i + k])], IsStep)

\* steps without the ones equal to the step right before them
Squeezed(steps) ==
    SelectSeq([k \in DOMAIN steps |-> IF k > 1 /\ steps[k] = steps[k - 1] THEN <<>> ELSE steps[k]], NonBlankLine)

StepsPlaces(raw) ==
    SelectSeq([k \in 1..(Len(raw) + 1) |-> k - 1],
              LAMBDA i : IsStepsHeaderAt(raw, i) /\ Len(StepsAfter(raw, i)) > 0)

StepsNameAt(raw, i) == IF i = 0 THEN StepsName ELSE StepsHeader(Strip(raw[i]))

\* one section for every header with steps, holding its steps squeezed
StepsByHeader(raw) ==
    [k \in DOMAIN StepsPlaces(raw) |->
        Section(StepsNameAt(raw, StepsPlaces(raw)[k]), Squeezed(StepsAfter(raw, StepsPlaces(raw)[k])))]

\* C21: clean_steps drops a normalized line exactly when it equals the step stored
\* right before it in the same section: lines that normalize to nothing between two
\* equal lines do not break adjacency, and an equal line after a different stored
\* step or after a section header is kept.
C21_AdjacentDuplicates ==
    ReturnedFrom("clean_steps") /\ Len(StepsByHeader(updated.arg)) > 0
        => response.body = StepsByHeader(updated.arg)

\* clean_steps has returned for ["Step 1:", "Do X", "Step 1:", "Do X"], the second
\* "Do X" behind a label that normalizes to nothing, with "Do X" stored once
C21_Witness ==
    /\ ReturnedFrom("clean_steps")
    /\ updated.arg = << <<"S", "t", "e", "p", " ", "1", ":">>, Txt_DoX, <<"S", "t", "e", "p", " ", "1", ":">>, Txt_DoX >>
    /\ response.body = << Section(StepsName, <<Txt_DoX>>) >>

----------------------------------------------------------------------------
(* Properties of the refiner's calls                                        *)

\* the step issues the call of pass `what` if `trigger` holds, and no other call
IssuesIff(what, trigger) ==
    log'.calls = [log.calls EXCEPT ![what] = @ + (IF trigger THEN 1 ELSE 0)]

\* the calls issued so far are of passes before the one at hand
CallsInOrder ==
    /\ \A what \in {"steps", "ingredients", "times", "meta"} : log.calls[what] <= 1
    /\ pc = "refine_steps" => log.calls.steps = 0
    /\ pc \in {"refine_steps", "refine_ingredients"} => log.calls.ingredients = 0
    /\ pc \in {"refine_steps", "refine_ingredients", "refine_times"} => log.calls.times = 0
    /\ pc \in {"refine_steps", "refine_ingredients", "refine_times", "refine_meta"} => log.calls.meta = 0

\* C22: ai_refine_missing_fields issues at most four model calls, in the order steps,
\* ingredients, timings, title/author/servings, and a pass issues its call if and
\* only if its trigger holds on the record as the earlier passes left it: steps
\* empty; ingredients empty; one of the three times zero; title, author or servings
\* blank after trimming.
C22_CallsByTrigger ==
    /\ []CallsInOrder
    /\ [][ /\ pc = "refine_steps" => IssuesIff("steps", Len(updated.steps) = 0)
           /\ pc = "refine_ingredients" => IssuesIff("ingredients", Len(updated.ingredients) = 0)
           /\ pc = "refine_times" =>
                IssuesIff("times", 0 \in {updated.prep_time, updated.cook_time, updated.total_time})
           /\ pc = "refine_meta" =>
                IssuesIff("meta", \E f \in {updated.title, updated.author, updated.servings} : Len(Strip(f)) = 0)
           /\ pc = "refined" => log'.calls = log.calls ]_vars

\* the refiner returned after the ingredients and the timings calls only: the steps
\* were there, two times were zero, and title, author and servings were not blank
C22_Witness ==
    /\ pc = "refined"
    /\ log.modelRec.steps # <<>>
    /\ log.modelRec.prep_time = 10 /\ log.modelRec.cook_time = 0
    /\ log.calls = [NoCalls EXCEPT !.ingredients = 1, !.times = 1]

\* the pass that follows the one at hand
AfterPass(at) ==
    CASE at = "refine_steps" -> "refine_ingredients"
      [] at = "refine_ingredients" -> "refine_times"
      [] at = "refine_times" -> "refine_meta"
      [] at = "refine_meta" -> "refined"

\* the step is a pass whose call got a body that is no JSON object
MalformedBody ==
    \E what \in DOMAIN NoBodies :
        log.bodies[what] = "none" /\ log'.bodies[what] \in {"notjson", "notobject"}

\* C23: a refinement pass whose response is malformed (no JSON, or JSON that is not
\* an object) is treated as having returned an empty object: its fields stay
\* unfilled, the next pass is entered and ai_refine_missing_fields does not raise.
C23_MalformedPassGoesOn ==
    [][MalformedBody => /\ updated' = updated
                        /\ pc' = AfterPass(pc)
                        /\ log'.refine # "raised"]_vars

\* the stripped raw lines that are not blank and no generic label, in order
StrippedSteps(raw) == SelectSeq(Stripped(raw), IsStep)

\* C24: if the main pass of clean_steps stores no item while the raw input is not
\* empty, the result is one section "Steps" holding the stripped raw lines that are
\* not blank and no generic label, in order and with their prefixes, or no section
\* if no line is left; if the main pass stores an item the fallback is not applied.
C24_Fallback ==
    ReturnedFrom("clean_steps")
        => response.body =
             IF Len(StepsByHeader(updated.arg)) > 0 THEN StepsByHeader(updated.arg)
             ELSE IF Len(StrippedSteps(updated.arg)) > 0
             THEN << Section(StepsName, StrippedSteps(updated.arg)) >>
             ELSE <<>>

\* clean_steps has returned the fallback section for a list whose lines all normalize
\* to nothing or open a section: the lines are there as they were, header included
C24_Witness ==
    /\ ReturnedFrom("clean_steps")
    /\ updated.arg = << <<"-">>, <<"A", ":">>, <<"-">> >>
    /\ response.body = << Section(StepsName, << <<"-">>, <<"A", ":">>, <<"-">> >>) >>

----------------------------------------------------------------------------
(* Properties of a whole extract request                                    *)

\* C25: every extract request terminates, and within one request there is at most one
\* page fetch, one extraction model call, one model call per refinement pass and one
\* heuristic extraction, and, whenever the fetch succeeded, exactly one persistence
\* attempt.
C25_OnceEach ==
    /\ [](\A what \in DOMAIN NoCalls : log.calls[what] <= 1)
    /\ []((pc = "done" /\ log.fetch = "ok") => log.calls.save = 1)
    /\ (pc \notin {"idle", "done"}) ~> (pc = "done")

\* C26: the record ai_extract returns has the requested URL as source_url, whatever
\* source_url the response of the model held; hence every record a successful
\* extract request returns, the model's, the refined or the heuristic one, carries
\* the requested URL.
C26_RequestedUrl ==
    /\ log.model = "returned" => log.modelRec.source_url = url
    /\ log.refine = "returned" => log.refinedRec.source_url = url
    /\ log.heuristic = "returned" => log.heurRec.source_url = url
    /\ (pc = "done" /\ response.status = 200) => response.body.source_url = url

\* the request returned the record of the model, whose response was an object with a
\* source_url of its own
C26_Witness ==
    /\ pc = "done"
    /\ response.status = 200
    /\ log.content = "obj"
    /\ log.savePoint = "model"
    /\ response.body = log.modelRec
    /\ ModelUrl # url

----------------------------------------------------------------------------
(* Properties of PATCH /recipes and of GET /recipes                         *)

\* C27: PATCH is all-or-nothing: if update_recipe_row raises while applying the
\* supplied fields, none of them has been written to the stored record.
C27_AllOrNothing ==
    (response.handler = "update_recipe" /\ response.status = 500) => recipes = log.rowsBefore

\* C28: after an upload has set the image of a record, GET /recipes returns that
\* record carrying the image_url: the listed record has the scalar fields of the raw
\* record, image_url included.
C28_ListedWithImage ==
    response.handler = "list_recipes"
        => \A i \in DOMAIN response.body :
              RowOf(response.body[i].source_url).image_url # NullImage
                 => /\ "image_url" \in DOMAIN response.body[i]
                    /\ response.body[i].image_url = RowOf(response.body[i].source_url).image_url

\* the line is a generic label followed by a colon
LabelWithColon(line) ==
    LET s == Strip(line)
    IN  /\ Len(s) > 0
        /\ s[Len(s)] = ":"
        /\ Lower(Strip(SubSeq(s, 1, Len(s) - 1))) \in generic_labels

WithoutLabels(raw) == SelectSeq(raw, LAMBDA line : ~LabelWithColon(line))

\* C29: a steps line that is a generic label followed by a colon ("Instructions:",
\* "Steps:", "Method:") neither opens a section nor is stored, whole or in part, as a
\* step: clean_steps returns what it returns for the list without such lines.
C29_LabelWithColon ==
    ReturnedFrom("clean_steps") => response.body = clean_steps(WithoutLabels(updated.arg))

----------------------------------------------------------------------------
(* Properties of the timings pass                                          *)

\* the JSON value is a positive plain number (of minutes)
PlainMinutes(j) == j.k = "num" /\ j.n > 0

\* what the pass makes of one time field: a non-zero base value is kept, a zero one
\* takes the plain number of the response
Filled(base, j, refined) ==
    IF base # 0 THEN refined = base ELSE PlainMinutes(j) => refined = j.n

\* the step is the timings pass, called with that content and ended without raising
TimesPass(content) ==
    /\ pc = "refine_times"
    /\ NeedTimes(updated)
    /\ call(content).k = "obj"
    /\ ~RefineTimes(updated, call(content), url).raised
    /\ PassCalled("times", RefineTimes(updated, call(content), url), "refine_meta", BodyKind(content))

\* C30: in the timings pass, a time field (prep, cook, total) that is 0 in the base
\* record and for which the response gives a positive plain number of minutes equals
\* that number in the refined record; a field that was not 0 keeps the base value.
C30_PlainMinutesFill ==
    [][\A content \in RefineContents :
          TimesPass(content)
             => /\ Filled(updated.prep_time, call(content).f.prep_time, updated'.prep_time)
                /\ Filled(updated.cook_time, call(content).f.cook_time, updated'.cook_time)
                /\ Filled(updated.total_time, call(content).f.total_time, updated'.total_time)]_vars

====
